---- MODULE Spec2Model ----
(***************************************************************************)
(* Gadjit: the access-request workflow (run), the legacy workflow of       *)
(* src/gadjit.py, and the requester-profile proximity scoring plugin.      *)
(*                                                                         *)
(* Numbers.  Scores are Python floats.  They are modelled as exact         *)
(* rationals [n, d] in lowest terms with d > 0.  The scores the workflow   *)
(* draws are dyadic (k/8), so that their float sums are exact and every    *)
(* two-decimal tie of a mean is itself an exact float: on these values     *)
(* Python's round(x, 2) is round-half-to-even of the exact value.          *)
(*                                                                         *)
(* Strings are sequences of one-character strings, so that lower(),        *)
(* strip() and split() are computed and not assumed.                       *)
(***************************************************************************)
EXTENDS Integers, Sequences, FiniteSets, TLC

VARIABLES
    \* ---- run (src/gadjit/__main__.py, src/gadjit.py)
    config,           \* the loaded configuration
    access_requests,  \* what iga_plugin.retrieve_requests returned
    pc,               \* position of run
    idx,              \* 1-based index of the request being processed
    cursor,           \* plugins_run_function: number of plugins already run
    results,          \* plugins_run_function: results collected so far
    invoked,          \* per scoring plugin, compute_scores calls for this request
    decision,         \* the decision taken for the request idx
    calls,            \* connector calls issued, in order
    provider_raised,  \* a compute_scores call for the request idx raised
    exc,              \* the exception that left run, or "none"
    \* ---- compute_scores (requester_profile_attribute_proximity/plugin.py)
    access_request,   \* the AccessRequest passed to compute_scores
    spc,              \* position of compute_scores
    title_reply,      \* the class of llm_plugin.query's reply to the title query
    org_reply,        \* ... to the organizational-unit query
    ent_reply,        \* ... to the entitlement-relevance query
    title_results,
    supervisoryorg_results,
    entitlement_properties_results,
    score,            \* the value compute_scores returned
    sexc,             \* the exception compute_scores raised, or "none"
    prompts,          \* the (system, user) prompts passed to llm_plugin.query
    existing_member_tally,  \* the per-id tally once both result lists are processed
    top_three_average,      \* final_score of compute_scores before it is scaled
    \* ---- lambda_handler (src/gadjit/__main__.py)
    response,         \* what lambda_handler returned or raised
    \* ---- __shared_words_percentage
    str1,
    str2,
    fn_result,       \* the value returned for (str1, str2)
    \* ---- process_env_variables (src/gadjit/utils.py)
    env_config,       \* the configuration passed in
    environ,          \* os.environ
    env_result,       \* what the call returned or raised
    \* ---- retrieve_requests (src/plugins/iga/conductorone_cron/plugin.py)
    cpc,              \* position of retrieve_requests
    task_summaries,   \* what client.search_tasks returned
    task,             \* 1-based index of the task summary being prepared
    entitlement_members,  \* the members mapping of the entitlement being built
    user_email,       \* _user_api_response.get("email")
    prepared,         \* the AccessRequests retrieve_requests has appended
    \* ---- _get_access_token (src/plugins/iga/conductorone_cron/plugin.py)
    access_token,     \* self.access_token
    now,              \* int(time.time())
    token_calls,      \* calls of _get_access_token made
    authentications,  \* calls of client.authenticate made
    issued,           \* what the latest client.authenticate returned
    token_returned,   \* what the latest _get_access_token returned
    token_exc,        \* the exception the latest _get_access_token raised, or "none"
    \* ---- approve_request (src/plugins/iga/conductorone_cron/plugin.py)
    apc,              \* position of approve_request
    approval_request, \* the AccessRequest passed to approve_request
    reassign_to_user, \* config.get("reassign_to_user")
    api_calls,        \* client calls issued, in order
    task_reply,       \* what client.get_task returned
    new_task_policy_step_id,
    aexc              \* the exception that left approve_request, or "none"

runVars == <<config, access_requests, pc, idx, cursor, results, invoked,
             decision, calls, provider_raised, exc>>

scoreVars == <<access_request, spc, title_reply, org_reply, ent_reply,
               title_results, supervisoryorg_results,
               entitlement_properties_results, score, sexc, prompts,
               existing_member_tally, top_three_average>>

handlerVars == <<response>>

envVars == <<env_config, environ, env_result>>

fnVars == <<str1, str2, fn_result, envVars>>

tokenVars == <<access_token, now, token_calls, authentications, issued,
               token_returned, token_exc>>

approveVars == <<apc, approval_request, reassign_to_user, api_calls, task_reply,
                 new_task_policy_step_id, aexc>>

connVars == <<cpc, task_summaries, task, entitlement_members, user_email, prepared,
              tokenVars, approveVars>>

vars == <<runVars, scoreVars, handlerVars, fnVars, connVars>>

----------------------------------------------------------------------------
(* Bounds of the model *)

MaxPlugins == 2     \* enabled IGA / LLM plugins range over 0..MaxPlugins
MaxScoring == 2     \* enabled scoring plugins range over 0..MaxScoring
MaxRequests == 2    \* length of the batch retrieve_requests returns
MaxOverlap == 2     \* entries of an overlap_users list in an LLM reply
MaxTasks == 2       \* task summaries client.search_tasks returns
MaxItems == 2       \* items of a dict or list of leaves in a configuration
MaxTokenCalls == 3  \* calls of _get_access_token
MaxTime == 3        \* the clock runs over 0..MaxTime

----------------------------------------------------------------------------
(* Rationals *)

Abs(x) == IF x < 0 THEN -x ELSE x

RECURSIVE Gcd(_, _)
Gcd(a, b) == IF b = 0 THEN a ELSE Gcd(b, a % b)

Norm(n, d) == LET g == Gcd(Abs(n), d) IN [n |-> n \div g, d |-> d \div g]

R(n, d) == Norm(n, d)
RZero == [n |-> 0, d |-> 1]
ROne == [n |-> 1, d |-> 1]
RAdd(x, y) == Norm(x.n * y.d + y.n * x.d, x.d * y.d)
RMul(x, y) == Norm(x.n * y.n, x.d * y.d)
RDivInt(x, k) == Norm(x.n, x.d * k)
RLess(x, y) == x.n * y.d < y.n * x.d
RLeq(x, y) == x.n * y.d <= y.n * x.d

RECURSIVE RSum(_)
RSum(s) == IF s = <<>> THEN RZero ELSE RAdd(Head(s), RSum(Tail(s)))

----------------------------------------------------------------------------
(* Strings *)

LowerChar(c) ==
    CASE c = "A" -> "a" [] c = "B" -> "b" [] c = "C" -> "c" [] c = "D" -> "d"
      [] c = "E" -> "e" [] c = "F" -> "f" [] c = "G" -> "g" [] c = "H" -> "h"
      [] c = "W" -> "w" [] c = "X" -> "x" [] OTHER -> c

\* str.lower()
Lower(s) == [i \in 1..Len(s) |-> LowerChar(s[i])]

IsSpace(c) == c = " "

RECURSIVE LStrip(_)
LStrip(s) == IF s # <<>> /\ IsSpace(Head(s)) THEN LStrip(Tail(s)) ELSE s

RECURSIVE RStrip(_)
RStrip(s) == IF s # <<>> /\ IsSpace(s[Len(s)])
             THEN RStrip(SubSeq(s, 1, Len(s) - 1)) ELSE s

\* str.strip()
Strip(s) == RStrip(LStrip(s))

RECURSIVE SplitRec(_, _, _, _)
SplitRec(s, sep, cur, acc) ==
    IF s = <<>> THEN Append(acc, cur)
    ELSE IF Head(s) = sep THEN SplitRec(Tail(s), sep, <<>>, Append(acc, cur))
    ELSE SplitRec(Tail(s), sep, Append(cur, Head(s)), acc)

\* str.split(sep) for a one-character separator
Split(s, sep) == SplitRec(s, sep, <<>>, <<>>)

----------------------------------------------------------------------------
(* Inputs of run *)

\* Scores a scoring plugin may return (any float; these exercise every band).
ScoreValues ==
    {R(-1, 1), R(-1, 2), RZero, R(1, 8), R(1, 2), R(255, 256), R(3, 2), R(2, 1)}

\* Entitlements of the requests in a batch.
Entitlements ==
    { [name |-> <<"D", "b">>, id |-> <<"e", "1">>],
      [name |-> <<"w">>,      id |-> <<"E", "2">>] }

\* gadjit.entitlements_to_auto_approve: absent, a list, or a comma-delimited string.
AllowAbsent == [kind |-> "absent", items |-> <<>>, text |-> <<>>]
AllowList(items) == [kind |-> "list", items |-> items, text |-> <<>>]
AllowStr(text) == [kind |-> "str", items |-> <<>>, text |-> text]

AllowConfigs ==
    { AllowAbsent,
      AllowList(<< <<" ", "d", "B", " ">> >>),
      AllowStr(<<"x", ",", " ", "E", "2">>) }

\* gadjit.include_score_in_comments: the key is absent, or set to false or true.
IncludeScoreConfigs == {"absent", "false", "true"}

Configs ==
    [ iga : 0..MaxPlugins,
      llm : 0..MaxPlugins,
      scoring : 0..MaxScoring,
      include_score_in_comments : IncludeScoreConfigs,
      entitlements_to_auto_approve : AllowConfigs ]

RequestBatches ==
    UNION { [1..n -> Entitlements] : n \in 0..MaxRequests }

----------------------------------------------------------------------------
(* The decision of run, src/gadjit/__main__.py *)

RoundDigits == 2
ApproveThreshold == 1

RECURSIVE Pow10(_)
Pow10(k) == IF k = 0 THEN 1 ELSE 10 * Pow10(k - 1)

\* round(x, ndigits) on a value whose ties are exact floats: half to even.
Round(x, ndigits) ==
    LET scale == Pow10(ndigits)
        num == x.n * scale
        q == num \div x.d
        r == num - q * x.d
        h == IF 2 * r < x.d THEN q
             ELSE IF 2 * r > x.d THEN q + 1
             ELSE IF q % 2 = 0 THEN q ELSE q + 1
    IN Norm(h, scale)

\* Mutant: manual review is forced only when every plugin returned 0.
EnforceNeedsManualReviewAllZero(scores) ==
    \A i \in 1..Len(scores) : scores[i] = RZero

\* lines 95-96: some plugin returned 0
EnforceNeedsManualReview(scores) ==
    \E i \in 1..Len(scores) : scores[i] = RZero

\* Mutant: only the documented value -1 rejects.
EnforceRejectionMinusOneOnly(scores) ==
    \E i \in 1..Len(scores) : scores[i] = R(-1, 1)

\* lines 98-99: some plugin returned a value that is not 0 and is < 0
EnforceRejection(scores) ==
    \E i \in 1..Len(scores) : scores[i] # RZero /\ RLess(scores[i], RZero)

\* Mutant: only the ordinary (positive) signals are averaged.
FinalScoreOrdinaryOnly(scores) ==
    LET pos == SelectSeq(scores, LAMBDA x : RLess(RZero, x))
    IN IF pos = <<>> THEN RZero
       ELSE Round(RDivInt(RSum(pos), Len(pos)), RoundDigits)

\* Mutant: the average is compared as it is, not rounded.
FinalScoreNotRounded(scores) == RDivInt(RSum(scores), Len(scores))

\* lines 103-104 (the caller has checked Len(scores) > 0)
FinalScore(scores) == Round(RDivInt(RSum(scores), Len(scores)), RoundDigits)

\* Mutant: the approval threshold is strict.
OutcomeStrictThreshold(enforce_rejection, enforce_needs_manual_review, final_score) ==
    IF enforce_rejection THEN "Reject"
    ELSE IF enforce_needs_manual_review
            \/ RLeq(final_score, R(ApproveThreshold, 1)) THEN "Hold"
    ELSE "Approve"

\* lines 108, 119, 133: the branch taken
Outcome(enforce_rejection, enforce_needs_manual_review, final_score) ==
    IF enforce_rejection THEN "Reject"
    ELSE IF enforce_needs_manual_review
            \/ RLess(final_score, R(ApproveThreshold, 1)) THEN "Hold"
    ELSE IF RLeq(R(ApproveThreshold, 1), final_score) THEN "Approve"
    ELSE "none"

NoScore == [n |-> 0, d |-> 0]
NoComment == [kind |-> "none", score |-> NoScore]

\* config.get("gadjit").get("include_score_in_comments", False)
IncludeScoreInComments(cfg) == cfg.include_score_in_comments = "true"

\* Mutant: the score is appended to every comment when the flag is set.
CommentScoreInEveryTemplate(outcome, final_score, cfg) ==
    [kind |-> IF outcome = "Reject" THEN "reject"
              ELSE IF outcome = "Hold" THEN "review" ELSE "approve",
     score |-> IF IncludeScoreInComments(cfg) THEN final_score ELSE NoScore]

\* lines 112-116, 123-131, 137-143: the comment text, by its template and the
\* score appended to it (NoScore: no "[score]" suffix)
Comment(outcome, final_score, cfg) ==
    IF outcome = "Reject" THEN [kind |-> "reject", score |-> NoScore]
    ELSE [kind |-> IF outcome = "Hold" THEN "review" ELSE "approve",
          score |-> IF IncludeScoreInComments(cfg) THEN final_score ELSE NoScore]

\* lines 147-156
EntitlementsToAutoApprove(cfg) ==
    LET a == cfg.entitlements_to_auto_approve
        raw == IF a.kind = "str" THEN Split(a.text, ",") ELSE a.items
    IN [i \in 1..Len(raw) |-> Lower(Strip(raw[i]))]

\* lines 159-163
OnAllowList(entitlement, cfg) ==
    LET l == EntitlementsToAutoApprove(cfg)
    IN \E i \in 1..Len(l) : l[i] = Lower(entitlement.name) \/ l[i] = Lower(entitlement.id)

NoDecision ==
    [outcome |-> "none", final_score |-> NoScore, comment |-> NoComment,
     on_allow_list |-> FALSE]

Call(op, req, comment, ok) == [op |-> op, req |-> req, comment |-> comment, ok |-> ok]

----------------------------------------------------------------------------
(* The proximity scoring plugin:                                             *)
(* src/gadjit/plugins/scoring/requester_profile_attribute_proximity/plugin.py *)

Range(f) == { f[i] : i \in DOMAIN f }

\* str.split(): the maximal runs of non-whitespace characters
Words(s) == SelectSeq(Split(s, " "), LAMBDA w : w # <<>>)

\* Mutant: the words are compared in the case they are written in.
TokenSetNoLower(s) == { w \in Range(Words(s)) : Len(w) >= 2 }

\* lines 383-384
TokenSet(s) == { w \in Range(Words(Lower(s))) : Len(w) >= 2 }

\* Mutant: the shared words are counted against the first string's words.
SharedWordsOverFirst(s1, s2) ==
    LET set1 == TokenSet(s1)
        set2 == TokenSet(s2)
    IN IF Cardinality(set1 \cup set2) = 0 THEN RZero
       ELSE IF Cardinality(set1) = 0 THEN RZero
       ELSE R(Cardinality(set1 \cap set2), Cardinality(set1))

\* __shared_words_percentage, lines 370-395
SharedWordsPercentage(s1, s2) ==
    LET set1 == TokenSet(s1)
        set2 == TokenSet(s2)
        common_words == set1 \cap set2
        all_words == set1 \cup set2
    IN IF Cardinality(all_words) = 0 THEN RZero
       ELSE R(Cardinality(common_words), Cardinality(all_words))

\* models.Requester.__init__, src/gadjit/models.py lines 227-236
Requester(title, department, supervisory_organization, email) ==
    [title |-> title, department |-> department,
     title_and_department |-> title \o <<",", " ">> \o department,
     supervisory_organization |-> supervisory_organization,
     email |-> email]

\* A member profile record.  org_key is the name of the key that holds the
\* organizational unit: "SupervisoryOrganization" as built by
\* src/plugins/iga/conductorone/api.py line 265, "organizational_unit" as built
\* by src/gadjit/plugins/iga/conductorone_cron/api.py line 275.
Profile(id, title_and_department, org_key, org_value) ==
    [id |-> id, title_and_department |-> title_and_department,
     org_key |-> org_key, org_value |-> org_value]

HasKey(profile, key) ==
    key \in {"id", "title_and_department", profile.org_key}

\* Python values of the plugin
None == [kind |-> "None", items |-> <<>>, v |-> RZero]
Unset == [kind |-> "unset", items |-> <<>>, v |-> RZero]
List(items) == [kind |-> "list", items |-> items, v |-> RZero]
Num(v) == [kind |-> "num", items |-> <<>>, v |-> v]

\* JSON documents an LLM reply may hold: text that is not JSON, or an object
\* with the optional keys overlap_users and relationship_score.  A key's value
\* is Unset (key absent), None (null), a list or a number.
Malformed == [shape |-> "malformed", overlap_users |-> Unset, relationship_score |-> Unset]
Object(overlap_users, relationship_score) ==
    [shape |-> "object", overlap_users |-> overlap_users,
     relationship_score |-> relationship_score]

\* What llm_plugin.query gives: None (answer not completed), a string (empty,
\* or text, possibly wrapped in a markdown code fence), or an exception.
NoReply == [kind |-> "unasked", fenced |-> FALSE, doc |-> Malformed]
NullReply == [kind |-> "null", fenced |-> FALSE, doc |-> Malformed]
EmptyReply == [kind |-> "empty", fenced |-> FALSE, doc |-> Malformed]
RaisedReply == [kind |-> "raise", fenced |-> FALSE, doc |-> Malformed]
Text(fenced, doc) == [kind |-> "text", fenced |-> fenced, doc |-> doc]

\* What is recorded of a reply once it has been handled.
ReplyClass(reply) ==
    IF reply.kind # "text" THEN reply.kind
    ELSE IF reply.fenced THEN "fenced"
    ELSE IF reply.doc.shape = "malformed" THEN "malformed"
    ELSE "object"

\* "if not llm_result"
Falsy(reply) == reply.kind \in {"null", "empty"}

\* json.loads(llm_result): fails on text that is not JSON; a code fence around
\* the JSON makes the text not JSON.
JsonLoadsFails(reply) == reply.fenced \/ reply.doc.shape = "malformed"

Returned(value) == [status |-> "return", value |-> value, exc |-> "none"]
Raised(e) == [status |-> "raise", value |-> Unset, exc |-> e]

\* _generic_profile_field_query, lines 203-209: profile['id'] and
\* profile[field_type] are read for every member before the query is sent.
FlattenRaises(field_type, entitlement_users) ==
    \E i \in 1..Len(entitlement_users) :
        ~HasKey(entitlement_users[i].profile, field_type)

\* profile[field_type], for a key the profile has
ProfileField(profile, field_type) ==
    IF field_type = "id" THEN profile.id
    ELSE IF field_type = "title_and_department" THEN profile.title_and_department
    ELSE profile.org_value

\* Mutant: the members are listed by email (the line the source comments out).
FlattenLineByEmail(email, profile, field_type) ==
    [key |-> email, value |-> ProfileField(profile, field_type)]

\* lines 207-209: f"{profile['id']}: {profile[field_type]}"
FlattenLine(email, profile, field_type) ==
    [key |-> ProfileField(profile, "id"), value |-> ProfileField(profile, field_type)]

\* lines 203-212: one line per member, joined in reversed order
EntitlementUsersFlattened(field_type, entitlement_users) ==
    LET n == Len(entitlement_users)
    IN [i \in 1..n |->
          FlattenLine(entitlement_users[n + 1 - i].email,
                      entitlement_users[n + 1 - i].profile, field_type)]

\* lines 119-134: field_type_verbose
FieldTypeVerbose(field_type) ==
    IF field_type = "title_and_department" THEN "job title" ELSE "organizational unit"

\* lines 214-219: the user prompt, by the values formatted into it
UserPrompt(field_type, field_value, entitlement_users) ==
    [about |-> FieldTypeVerbose(field_type), field_value |-> field_value,
     lines |-> EntitlementUsersFlattened(field_type, entitlement_users),
     group_name |-> <<>>, group_description |-> <<>>]

\* lines 221-265: the system prompt, by the values formatted into it (the
\* field type, its verbose name and the example ids; nothing of the request)
SystemPrompt(field_type) ==
    [task |-> "overlap_users", field_type |-> field_type,
     about |-> FieldTypeVerbose(field_type),
     example_ids |-> <<"2UzZUNHoFtzbGuuNi0H6FZ0c2rY", "2aQd22omPtj05gKmRNxRDvBekk2">>]

\* _generic_profile_field_query, lines 203-267: what is passed to llm_plugin.query
ProfileFieldPrompts(field_type, field_value, entitlement_users) ==
    [system |-> SystemPrompt(field_type),
     user |-> UserPrompt(field_type, field_value, entitlement_users)]

\* _match_user_properties_to_entitlement_properties, lines 295-351
EntitlementPrompts(title_dept, entitlement_name, entitlement_description) ==
    [system |-> [task |-> "relationship_score", field_type |-> "none",
                 about |-> "job title", example_ids |-> <<>>],
     user |-> [about |-> "job title", field_value |-> title_dept, lines |-> <<>>,
               group_name |-> entitlement_name,
               group_description |-> entitlement_description]]

\* Mutant: an incomplete answer is taken to mean "no overlap".
MatchMembersNullAsEmpty(field_type, entitlement_users, reply) ==
    IF FlattenRaises(field_type, entitlement_users) THEN Raised("KeyError")
    ELSE IF reply.kind = "raise" THEN Raised("LLMError")
    ELSE IF Falsy(reply) THEN Returned(List(<<>>))
    ELSE IF JsonLoadsFails(reply) THEN Raised("JSONDecodeError")
    ELSE IF reply.doc.overlap_users.kind # "list"
            \/ reply.doc.overlap_users.items = <<>> THEN Returned(List(<<>>))
    ELSE Returned(reply.doc.overlap_users)

\* Mutant: text that does not parse is taken to mean "no overlap".
MatchMembersMalformedAsEmpty(field_type, entitlement_users, reply) ==
    IF FlattenRaises(field_type, entitlement_users) THEN Raised("KeyError")
    ELSE IF reply.kind = "raise" THEN Raised("LLMError")
    ELSE IF Falsy(reply) THEN Returned(None)
    ELSE IF JsonLoadsFails(reply) THEN Returned(List(<<>>))
    ELSE IF reply.doc.overlap_users.kind # "list"
            \/ reply.doc.overlap_users.items = <<>> THEN Returned(List(<<>>))
    ELSE Returned(reply.doc.overlap_users)

\* _match_user_properties_to_existing_group_members, lines 100-164, given the
\* reply llm_plugin.query makes to the query it sends
MatchMembers(field_type, entitlement_users, reply) ==
    IF FlattenRaises(field_type, entitlement_users) THEN Raised("KeyError")
    ELSE IF reply.kind = "raise" THEN Raised("LLMError")
    ELSE IF Falsy(reply) THEN Returned(None)
    ELSE IF JsonLoadsFails(reply) THEN Raised("JSONDecodeError")
    ELSE IF reply.doc.overlap_users.kind # "list"
            \/ reply.doc.overlap_users.items = <<>> THEN Returned(List(<<>>))
    ELSE Returned(reply.doc.overlap_users)

\* _match_user_properties_to_entitlement_properties, lines 269-368
MatchEntitlement(reply) ==
    IF reply.kind = "raise" THEN Raised("LLMError")
    ELSE IF Falsy(reply) THEN Returned(None)
    ELSE IF JsonLoadsFails(reply) THEN Raised("JSONDecodeError")
    ELSE IF reply.doc.relationship_score.kind # "num"
            \/ reply.doc.relationship_score.v = RZero THEN Returned(None)
    ELSE Returned(reply.doc.relationship_score)

\* The requesters and the field values of overlap entries that compute_scores
\* is given.
Requesters ==
    { Requester(<<"a", "b">>, <<"c", "d">>, <<"e", "f", " ", "g", "h">>, "r@x"),
      Requester(<<"A", "B">>, <<"x">>, <<>>, "r@x") }

TitleValues == << <<"a", "b", ",", " ", "c", "d">>, <<"e", "f", ",", " ", "C", "D">> >>
OrgValues == << <<"g", "h">> >>

\* lines 61-64 and 72-75: the calls of __shared_words_percentage.  The ratios of
\* the field values above are computed once and looked up; for any other
\* pair of strings the ratio is computed at the call.
SharedWordsTable ==
    { <<s1, s2, SharedWordsPercentage(s1, s2)>> :
        s1 \in Range(TitleValues) \cup Range(OrgValues),
        s2 \in { r.title_and_department : r \in Requesters }
                 \cup { r.supervisory_organization : r \in Requesters } }

SharedWordsCall(s1, s2) ==
    IF \E t \in SharedWordsTable : t[1] = s1 /\ t[2] = s2
    THEN (CHOOSE t \in SharedWordsTable : t[1] = s1 /\ t[2] = s2)[3]
    ELSE SharedWordsPercentage(s1, s2)

\* Mutant: an entry's ratio replaces the tally of its user.
RECURSIVE ProcessResultsOverwrite(_, _, _)
ProcessResultsOverwrite(tally_so_far, result_list, requester_value) ==
    IF result_list = <<>> THEN tally_so_far
    ELSE LET e == Head(result_list)
             t == [u \in DOMAIN tally_so_far \cup {e.user} |->
                     IF u = e.user
                     THEN SharedWordsCall(e.value, requester_value)
                     ELSE tally_so_far[u]]
         IN ProcessResultsOverwrite(t, Tail(result_list), requester_value)

\* lines 60-68 and 71-79: one pass over a result list, adding each entry's
\* shared-words ratio to the tally of its user
RECURSIVE ProcessResults(_, _, _)
ProcessResults(tally_so_far, result_list, requester_value) ==
    IF result_list = <<>> THEN tally_so_far
    ELSE LET e == Head(result_list)
             percentage == SharedWordsCall(e.value, requester_value)
             old == IF e.user \in DOMAIN tally_so_far
                    THEN tally_so_far[e.user] ELSE RZero
             t == [u \in DOMAIN tally_so_far \cup {e.user} |->
                     IF u = e.user THEN RAdd(old, percentage)
                     ELSE tally_so_far[u]]
         IN ProcessResults(t, Tail(result_list), requester_value)

TopCount == 3

\* line 82: sorted(existing_member_tally.values(), reverse=True)[:k]
RECURSIVE TopScores(_, _)
TopScores(tally, k) ==
    IF k = 0 \/ DOMAIN tally = {} THEN <<>>
    ELSE LET m == CHOOSE u \in DOMAIN tally :
                    \A w \in DOMAIN tally : RLeq(tally[w], tally[u])
         IN <<tally[m]>> \o TopScores([w \in DOMAIN tally \ {m} |-> tally[w]], k - 1)

\* line 57: existing_member_tally = {}
EmptyTally == [u \in {} |-> RZero]

\* lines 56-79
MemberTally(req, title_list, org_list) ==
    ProcessResults(
        ProcessResults(EmptyTally, title_list,
                       req.requester.title_and_department),
        org_list, req.requester.supervisory_organization)

\* Mutant: the top tallies are always divided by three.
MemberScoreOverThree(tally) == RDivInt(RSum(TopScores(tally, TopCount)), TopCount)

\* Mutant: the top tallies are summed and not averaged.
MemberScoreSum(tally) == RSum(TopScores(tally, TopCount))

\* lines 81-88
MemberScore(tally) ==
    LET top_three_scores == TopScores(tally, TopCount)
    IN IF top_three_scores = <<>> THEN RZero
       ELSE RDivInt(RSum(top_three_scores), Len(top_three_scores))

\* Mutant: the multiplier is clamped to the advertised range [0.5, 1.5].
ScaleScoreClamped(final_score, relationship) ==
    IF relationship.kind = "num" /\ relationship.v # RZero
    THEN RMul(final_score,
              IF RLess(relationship.v, R(1, 2)) THEN R(1, 2)
              ELSE IF RLess(R(3, 2), relationship.v) THEN R(3, 2)
              ELSE relationship.v)
    ELSE final_score

\* Mutant: the multiplier is applied even when it is absent, as 0.
ScaleScoreAbsentAsZero(final_score, relationship) ==
    IF relationship.kind = "num" THEN RMul(final_score, relationship.v) ELSE RZero

\* lines 93-95
ScaleScore(final_score, relationship) ==
    IF relationship.kind = "num" /\ relationship.v # RZero
    THEN RMul(final_score, relationship.v)
    ELSE final_score

----------------------------------------------------------------------------
(* Inputs of compute_scores *)

Ids == <<"u1", "u2", "u3", "u4">>

\* Entitlement members: (email, profile) in the mapping's insertion order.
Member(email, profile) == [email |-> email, profile |-> profile]

MemberMaps ==
    { <<>>,
      << Member("m1@x", Profile("u1", <<"a", "b", ",", " ", "c", "d">>,
                                "SupervisoryOrganization", <<"g", "h">>)),
         Member("m2@x", Profile("u2", <<"e", "f", ",", " ", "C", "D">>,
                                "SupervisoryOrganization", <<"e", "f", " ", "g", "h">>)) >>,
      << Member("m1@x", Profile("u1", <<"a", "b", ",", " ", "c", "d">>,
                                "organizational_unit", <<"g", "h">>)) >> }

AccessRequests ==
    { [requester |-> r,
       entitlement |-> [name |-> <<"D", "b">>, id |-> <<"e", "1">>,
                        description |-> <<"d", "b", " ", "r", "w">>, members |-> m]] :
      r \in Requesters, m \in MemberMaps }

Entry(user, value) == [user |-> user, value |-> value]

\* The entries an overlap_users list may hold, numbered: every id with every
\* value of the field.
Entries(values) ==
    [k \in 1..(Len(Ids) * Len(values)) |->
        Entry(Ids[((k - 1) \div Len(values)) + 1], values[((k - 1) % Len(values)) + 1])]

\* The lists of at most MaxOverlap entries, each in the order of the entries'
\* numbers: the tally is a sum per id, so the order of a reply's entries does
\* not change it.
OverlapLists(values) ==
    LET es == Entries(values)
    IN { [i \in 1..Len(f) |-> es[f[i]]] :
           f \in { g \in UNION { [1..n -> DOMAIN es] : n \in 0..MaxOverlap } :
                     \A i \in 1..Len(g) - 1 : g[i] <= g[i + 1] } }

OverlapReplies(values) ==
    { NullReply, EmptyReply, RaisedReply,
      Text(FALSE, Malformed),
      Text(FALSE, Object(Unset, Unset)),
      Text(FALSE, Object(None, Unset)) }
    \cup { Text(FALSE, Object(List(l), Unset)) : l \in OverlapLists(values) }
    \cup { Text(TRUE, Object(List(<<>>), Unset)) }

TitleReplies == OverlapReplies(TitleValues)
OrgReplies == OverlapReplies(OrgValues)

RelationshipReplies ==
    { NullReply, RaisedReply,
      Text(FALSE, Malformed),
      Text(FALSE, Object(Unset, Unset)),
      Text(FALSE, Object(Unset, None)) }
    \cup { Text(FALSE, Object(Unset, Num(r))) :
             r \in {RZero, R(1, 2), R(3, 2), R(-1, 1)} }

----------------------------------------------------------------------------
(* Values of process_env_variables, src/gadjit/utils.py *)

\* A configuration value: a string, a dict (keys and values in insertion
\* order), a list, or a value of another type (a number, a boolean, None).
ConfigStr(text) == [kind |-> "str", text |-> text, keys |-> <<>>, items |-> <<>>]
ConfigOther == [kind |-> "other", text |-> <<>>, keys |-> <<>>, items |-> <<>>]
ConfigDict(keys, items) == [kind |-> "dict", text |-> <<>>, keys |-> keys, items |-> items]
ConfigList(items) == [kind |-> "list", text |-> <<>>, keys |-> <<>>, items |-> items]

\* What a call gave: the configuration as the call left it, and the variable
\* named by the RuntimeError when it raised.
EnvReturned(cfg) == [status |-> "return", config |-> cfg, name |-> <<>>]
EnvRaised(cfg, name) == [status |-> "raise", config |-> cfg, name |-> name]
NoEnvResult == [status |-> "none", config |-> ConfigOther, name |-> <<>>]

\* An environment variable: not set, or set to a string.
EnvNotSet == [set |-> FALSE, text |-> <<>>]
EnvSet(text) == [set |-> TRUE, text |-> text]

NoEnviron == [n \in {} |-> EnvNotSet]

EnvIdle ==
    /\ env_config = ConfigOther
    /\ environ = NoEnviron
    /\ env_result = NoEnvResult

----------------------------------------------------------------------------
(* Values of the connector, src/plugins/iga/conductorone_cron/plugin.py *)

\* A token: None, the empty string, a string that is no decodable JWT, a JWT
\* without exp claim, or a JWT with one.  serial tells the tokens of
\* different authenticate calls apart.
Token(kind, exp, serial) == [kind |-> kind, exp |-> exp, serial |-> serial]

\* line 21: access_token = None
NoToken == Token("none", 0, 0)

TokenIdle ==
    /\ access_token = NoToken
    /\ now = 0
    /\ token_calls = 0
    /\ authentications = 0
    /\ issued = NoToken
    /\ token_returned = NoToken
    /\ token_exc = "none"

\* A call of the API client: its name, the task id, the policy step id and
\* the user passed (if any), and whether it returned.
ApiCall(op, task_id, step, user, ok) ==
    [op |-> op, task_id |-> task_id, step |-> step, user |-> user, ok |-> ok]

\* The JSON of get_task: whether it has a taskView object down to
\* task.policy.current, and the id found there ("None" when absent).
TaskReply(shape, id) == [shape |-> shape, id |-> id]
NoTaskReply == TaskReply("unasked", "None")

NoApprovalRequest == [id |-> "none", policy_step_id |-> "None"]

ApproveIdle ==
    /\ apc = "idle"
    /\ approval_request = NoApprovalRequest
    /\ reassign_to_user = "None"
    /\ api_calls = <<>>
    /\ task_reply = NoTaskReply
    /\ new_task_policy_step_id = "None"
    /\ aexc = "none"

----------------------------------------------------------------------------
(* The parts of the state a specification does not use *)

NoResponse == [kind |-> "none", statusCode |-> 0, success |-> FALSE, message |-> "none"]

HandlerIdle == response = NoResponse

FnIdle ==
    /\ str1 = <<>>
    /\ str2 = <<>>
    /\ fn_result = NoScore
    /\ EnvIdle

ConnIdle ==
    /\ cpc = "idle"
    /\ task_summaries = <<>>
    /\ task = 0
    /\ entitlement_members = <<>>
    /\ user_email = "none"
    /\ prepared = <<>>
    /\ TokenIdle
    /\ ApproveIdle

----------------------------------------------------------------------------
(* compute_scores *)

ScoreIdle ==
    /\ access_request = [requester |-> Requester(<<>>, <<>>, <<>>, ""),
                         entitlement |-> [name |-> <<>>, id |-> <<>>,
                                          description |-> <<>>, members |-> <<>>]]
    /\ spc = "idle"
    /\ title_reply = "unasked"
    /\ org_reply = "unasked"
    /\ ent_reply = "unasked"
    /\ title_results = Unset
    /\ supervisoryorg_results = Unset
    /\ entitlement_properties_results = Unset
    /\ score = NoScore
    /\ sexc = "none"
    /\ prompts = <<>>
    /\ existing_member_tally = EmptyTally
    /\ top_three_average = NoScore

\* Mutant: the query consumes the members mapping (pops the first member).
QueryTitlePopsMember ==
    /\ spc = "title"
    /\ LET members == access_request.entitlement.members
       IN \E reply \in IF FlattenRaises("title_and_department", members)
                       THEN {NoReply}
                       ELSE TitleReplies :
            LET r == MatchMembers("title_and_department", members, reply)
            IN /\ title_reply' = ReplyClass(reply)
               /\ prompts' = IF reply = NoReply THEN prompts
                             ELSE Append(prompts,
                                    ProfileFieldPrompts("title_and_department",
                                        access_request.requester.title_and_department,
                                        members))
               /\ access_request' =
                     IF members = <<>> THEN access_request
                     ELSE [access_request EXCEPT !.entitlement.members = Tail(@)]
               /\ IF r.status = "raise"
                  THEN spc' = "raised" /\ sexc' = r.exc /\ title_results' = title_results
                  ELSE spc' = "org" /\ sexc' = sexc /\ title_results' = r.value
    /\ UNCHANGED <<org_reply, ent_reply, supervisoryorg_results,
                   entitlement_properties_results, score,
                   existing_member_tally, top_three_average>>
    /\ UNCHANGED <<runVars, handlerVars, fnVars, connVars>>

\* lines 33-38
QueryTitle ==
    /\ spc = "title"
    /\ LET members == access_request.entitlement.members
       IN \E reply \in IF FlattenRaises("title_and_department", members)
                       THEN {NoReply}
                       ELSE TitleReplies :
            LET r == MatchMembers("title_and_department", members, reply)
            IN /\ title_reply' = ReplyClass(reply)
               /\ prompts' = IF reply = NoReply THEN prompts
                             ELSE Append(prompts,
                                    ProfileFieldPrompts("title_and_department",
                                        access_request.requester.title_and_department,
                                        members))
               /\ IF r.status = "raise"
                  THEN spc' = "raised" /\ sexc' = r.exc /\ title_results' = title_results
                  ELSE spc' = "org" /\ sexc' = sexc /\ title_results' = r.value
    /\ UNCHANGED <<access_request, org_reply, ent_reply, supervisoryorg_results,
                   entitlement_properties_results, score,
                   existing_member_tally, top_three_average>>
    /\ UNCHANGED <<runVars, handlerVars, fnVars, connVars>>

\* lines 39-44
QuerySupervisoryOrg ==
    /\ spc = "org"
    /\ LET members == access_request.entitlement.members
       IN \E reply \in IF FlattenRaises("SupervisoryOrganization", members)
                       THEN {NoReply}
                       ELSE OrgReplies :
            LET r == MatchMembers("SupervisoryOrganization", members, reply)
            IN /\ org_reply' = ReplyClass(reply)
               /\ prompts' = IF reply = NoReply THEN prompts
                             ELSE Append(prompts,
                                    ProfileFieldPrompts("SupervisoryOrganization",
                                        access_request.requester.supervisory_organization,
                                        members))
               /\ IF r.status = "raise"
                  THEN /\ spc' = "raised" /\ sexc' = r.exc
                       /\ supervisoryorg_results' = supervisoryorg_results
                  ELSE /\ spc' = "entitlement" /\ sexc' = sexc
                       /\ supervisoryorg_results' = r.value
    /\ UNCHANGED <<access_request, title_reply, ent_reply, title_results,
                   entitlement_properties_results, score,
                   existing_member_tally, top_three_average>>
    /\ UNCHANGED <<runVars, handlerVars, fnVars, connVars>>

\* lines 47-54
QueryEntitlement ==
    /\ spc = "entitlement"
    /\ \E reply \in RelationshipReplies :
         LET r == MatchEntitlement(reply)
         IN /\ ent_reply' = ReplyClass(reply)
            /\ prompts' = Append(prompts,
                              EntitlementPrompts(
                                  access_request.requester.title_and_department,
                                  access_request.entitlement.name,
                                  access_request.entitlement.description))
            /\ IF r.status = "raise"
               THEN /\ spc' = "raised" /\ sexc' = r.exc
                    /\ entitlement_properties_results' = entitlement_properties_results
               ELSE /\ spc' = "tally" /\ sexc' = sexc
                    /\ entitlement_properties_results' = r.value
    /\ UNCHANGED <<access_request, title_reply, org_reply, title_results,
                   supervisoryorg_results, score,
                   existing_member_tally, top_three_average>>
    /\ UNCHANGED <<runVars, handlerVars, fnVars, connVars>>

\* lines 56-98; iterating over None (lines 60, 71) raises TypeError
TallyAndReturn ==
    /\ spc = "tally"
    /\ IF title_results.kind # "list" \/ supervisoryorg_results.kind # "list"
       THEN /\ spc' = "raised" /\ sexc' = "TypeError" /\ score' = score
            /\ UNCHANGED <<existing_member_tally, top_three_average>>
       ELSE LET tally == MemberTally(access_request, title_results.items,
                                     supervisoryorg_results.items)
                final_score == MemberScore(tally)
            IN /\ spc' = "returned"
               /\ sexc' = sexc
               /\ existing_member_tally' = tally
               /\ top_three_average' = final_score
               /\ score' = ScaleScore(final_score, entitlement_properties_results)
    /\ UNCHANGED <<access_request, title_reply, org_reply, ent_reply, title_results,
                   supervisoryorg_results, entitlement_properties_results, prompts>>
    /\ UNCHANGED <<runVars, handlerVars, fnVars, connVars>>

RunIdle ==
    /\ config = [iga |-> 1, llm |-> 1, scoring |-> 1,
                 include_score_in_comments |-> "absent",
                 entitlements_to_auto_approve |-> AllowAbsent]
    /\ access_requests = <<>>
    /\ pc = "idle"
    /\ idx = 0
    /\ cursor = 0
    /\ results = <<>>
    /\ invoked = <<>>
    /\ decision = NoDecision
    /\ calls = <<>>
    /\ provider_raised = FALSE
    /\ exc = "none"

ScoreInit ==
    /\ RunIdle
    /\ HandlerIdle
    /\ FnIdle
    /\ ConnIdle
    /\ prompts = <<>>
    /\ existing_member_tally = EmptyTally
    /\ top_three_average = NoScore
    /\ access_request \in AccessRequests
    /\ spc = "title"
    /\ title_reply = "unasked"
    /\ org_reply = "unasked"
    /\ ent_reply = "unasked"
    /\ title_results = Unset
    /\ supervisoryorg_results = Unset
    /\ entitlement_properties_results = Unset
    /\ score = NoScore
    /\ sexc = "none"

ScoreNext ==
    \/ QueryTitle
    \/ QuerySupervisoryOrg
    \/ QueryEntitlement
    \/ TallyAndReturn

ScoreSpec == ScoreInit /\ [][ScoreNext]_vars

----------------------------------------------------------------------------
(* run, src/gadjit/__main__.py *)

Init ==
    /\ config \in Configs
    /\ access_requests = <<>>
    /\ pc = "start"
    /\ idx = 0
    /\ cursor = 0
    /\ results = <<>>
    /\ invoked = <<>>
    /\ decision = NoDecision
    /\ calls = <<>>
    /\ provider_raised = FALSE
    /\ exc = "none"
    /\ ScoreIdle
    /\ HandlerIdle
    /\ FnIdle
    /\ ConnIdle

\* Mutant: the scoring-plugin count is not checked.
LoadPluginsNoScoringCheck ==
    /\ UNCHANGED <<scoreVars, handlerVars, fnVars, connVars>>
    /\ pc = "start"
    /\ IF config.iga # 1 \/ config.llm # 1
       THEN pc' = "raised" /\ exc' = "RuntimeError"
       ELSE pc' = "retrieve" /\ exc' = exc
    /\ UNCHANGED <<config, access_requests, idx, cursor, results, invoked,
                   decision, calls, provider_raised>>

\* lines 69-82
LoadPlugins ==
    /\ UNCHANGED <<scoreVars, handlerVars, fnVars, connVars>>
    /\ pc = "start"
    /\ IF config.iga # 1 \/ config.llm # 1 \/ config.scoring < 1
       THEN pc' = "raised" /\ exc' = "RuntimeError"
       ELSE pc' = "retrieve" /\ exc' = exc
    /\ UNCHANGED <<config, access_requests, idx, cursor, results, invoked,
                   decision, calls, provider_raised>>

\* line 85
RetrieveRequests ==
    /\ UNCHANGED <<scoreVars, handlerVars, fnVars, connVars>>
    /\ pc = "retrieve"
    /\ access_requests' \in RequestBatches
    /\ calls' = Append(calls, Call("retrieve_requests", 0, NoComment, TRUE))
    /\ pc' = "loop"
    /\ UNCHANGED <<config, idx, cursor, results, invoked, decision,
                   provider_raised, exc>>

\* Mutant: the loop goes on with the next request after an exception.
NextRequestAfterRaise ==
    /\ UNCHANGED <<scoreVars, handlerVars, fnVars, connVars>>
    /\ pc \in {"loop", "raised"}
    /\ IF idx < Len(access_requests)
       THEN /\ idx' = idx + 1
            /\ pc' = "scoring"
            /\ cursor' = 0
            /\ results' = <<>>
            /\ invoked' = [p \in 1..config.scoring |-> 0]
            /\ decision' = NoDecision
            /\ provider_raised' = FALSE
       ELSE /\ pc' = "done"
            /\ UNCHANGED <<idx, cursor, results, invoked, decision, provider_raised>>
    /\ UNCHANGED <<config, access_requests, calls, exc>>

\* line 86: the next iteration of the for loop, or its end
NextRequest ==
    /\ UNCHANGED <<scoreVars, handlerVars, fnVars, connVars>>
    /\ pc = "loop"
    /\ IF idx < Len(access_requests)
       THEN /\ idx' = idx + 1
            /\ pc' = "scoring"
            /\ cursor' = 0
            /\ results' = <<>>
            /\ invoked' = [p \in 1..config.scoring |-> 0]
            /\ decision' = NoDecision
            /\ provider_raised' = FALSE
       ELSE /\ pc' = "done"
            /\ UNCHANGED <<idx, cursor, results, invoked, decision, provider_raised>>
    /\ UNCHANGED <<config, access_requests, calls, exc>>

\* utils.plugins_run_function, lines 64-66: the next plugin returns a score
CallProvider ==
    /\ UNCHANGED <<scoreVars, handlerVars, fnVars, connVars>>
    /\ pc = "scoring"
    /\ cursor < config.scoring
    /\ \E s \in ScoreValues : results' = Append(results, s)
    /\ cursor' = cursor + 1
    /\ invoked' = [invoked EXCEPT ![cursor + 1] = @ + 1]
    /\ UNCHANGED <<config, access_requests, pc, idx, decision, calls,
                   provider_raised, exc>>

\* Mutant: plugins_run_function catches the exception and goes on.
ProviderRaisesSwallowed ==
    /\ UNCHANGED <<scoreVars, handlerVars, fnVars, connVars>>
    /\ pc = "scoring"
    /\ cursor < config.scoring
    /\ invoked' = [invoked EXCEPT ![cursor + 1] = @ + 1]
    /\ provider_raised' = TRUE
    /\ cursor' = cursor + 1
    /\ UNCHANGED <<config, access_requests, pc, idx, results, decision, calls, exc>>

\* utils.plugins_run_function, lines 64-66: the next plugin raises; nothing
\* catches it in plugins_run_function or in run
ProviderRaises ==
    /\ UNCHANGED <<scoreVars, handlerVars, fnVars, connVars>>
    /\ pc = "scoring"
    /\ cursor < config.scoring
    /\ invoked' = [invoked EXCEPT ![cursor + 1] = @ + 1]
    /\ provider_raised' = TRUE
    /\ pc' = "raised"
    /\ exc' = "ProviderError"
    /\ UNCHANGED <<config, access_requests, idx, cursor, results, decision, calls>>

\* lines 88-167, once plugins_run_function has returned
Decide ==
    /\ UNCHANGED <<scoreVars, handlerVars, fnVars, connVars>>
    /\ pc = "scoring"
    /\ cursor = config.scoring
    /\ IF Len(results) = 0
       THEN /\ pc' = "raised"
            /\ exc' = "ZeroDivisionError"
            /\ UNCHANGED <<decision, calls>>
       ELSE LET final_score == FinalScore(results)
                outcome == Outcome(EnforceRejection(results),
                                   EnforceNeedsManualReview(results), final_score)
                comment == Comment(outcome, final_score, config)
            IN /\ decision' =
                    [outcome |-> outcome, final_score |-> final_score,
                     comment |-> comment,
                     on_allow_list |-> outcome = "Approve"
                                       /\ OnAllowList(access_requests[idx], config)]
               /\ IF outcome = "Reject"
                  THEN \E ok \in BOOLEAN :
                         /\ calls' = Append(calls,
                                        Call("comment_request", idx, comment, ok))
                         /\ IF ok THEN pc' = "loop" /\ exc' = exc
                            ELSE pc' = "raised" /\ exc' = "ConnectorError"
                  ELSE pc' = "loop" /\ UNCHANGED <<calls, exc>>
    /\ UNCHANGED <<config, access_requests, idx, cursor, results, invoked,
                   provider_raised>>

Response(statusCode, success, message) ==
    [kind |-> "return", statusCode |-> statusCode, success |-> success,
     message |-> message]

\* The exception left lambda_handler.
Propagated(e) ==
    [kind |-> "raise", statusCode |-> 0, success |-> FALSE, message |-> e]

\* Mutant: the except clause returns the 500 response.
LambdaHandlerReturns500 ==
    /\ pc \in {"done", "raised"}
    /\ response = NoResponse
    /\ response' = IF pc = "done" THEN Response(200, TRUE, "none")
                   ELSE Response(500, FALSE, exc)
    /\ UNCHANGED <<runVars, scoreVars, fnVars, connVars>>

\* lambda_handler, lines 27-41, once its call of run has returned or raised:
\* the except clause re-raises (line 36) before the 500 response of lines 37-41
LambdaHandler ==
    /\ pc \in {"done", "raised"}
    /\ response = NoResponse
    /\ response' = IF pc = "done" THEN Response(200, TRUE, "none")
                   ELSE Propagated(exc)
    /\ UNCHANGED <<runVars, scoreVars, fnVars, connVars>>

Next ==
    \/ LoadPlugins
    \/ RetrieveRequests
    \/ NextRequest
    \/ CallProvider
    \/ ProviderRaises
    \/ Decide
    \/ LambdaHandler

Spec == Init /\ [][Next]_vars

----------------------------------------------------------------------------
(* run, src/gadjit.py *)

\* lines 33-63, once plugins_run_function has returned
LegacyDecide ==
    /\ UNCHANGED <<scoreVars, handlerVars, fnVars, connVars>>
    /\ pc = "scoring"
    /\ cursor = config.scoring
    /\ IF Len(results) = 0
       THEN /\ pc' = "raised"
            /\ exc' = "ZeroDivisionError"
            /\ UNCHANGED <<decision, calls>>
       ELSE LET final_score == FinalScore(results)
                approve == RLeq(R(ApproveThreshold, 1), final_score)
                comment == [kind |-> IF approve THEN "approve" ELSE "review",
                            score |-> final_score]
            IN /\ decision' =
                    [outcome |-> IF approve THEN "Approve" ELSE "Hold",
                     final_score |-> final_score, comment |-> comment,
                     on_allow_list |-> FALSE]
               /\ \E commented \in BOOLEAN, approved \in BOOLEAN :
                    IF ~commented
                    THEN /\ calls' = Append(calls,
                                        Call("comment_request", idx, comment, FALSE))
                         /\ pc' = "raised" /\ exc' = "ConnectorError"
                    ELSE IF ~approve
                    THEN /\ calls' = Append(calls,
                                        Call("comment_request", idx, comment, TRUE))
                         /\ pc' = "loop" /\ exc' = exc
                    ELSE /\ calls' = calls
                                \o << Call("comment_request", idx, comment, TRUE),
                                      Call("approve_request", idx, NoComment, approved) >>
                         /\ IF approved THEN pc' = "loop" /\ exc' = exc
                            ELSE pc' = "raised" /\ exc' = "ConnectorError"
    /\ UNCHANGED <<config, access_requests, idx, cursor, results, invoked,
                   provider_raised>>

LegacyNext ==
    \/ LoadPlugins
    \/ RetrieveRequests
    \/ NextRequest
    \/ CallProvider
    \/ ProviderRaises
    \/ LegacyDecide

LegacySpec == Init /\ [][LegacyNext]_vars

----------------------------------------------------------------------------
(* __shared_words_percentage on its own *)

\* Arguments: empty, blank, one-character words, mixed case, repeated words,
\* runs of spaces, disjoint and overlapping word sets.
FnStrings ==
    { <<>>,
      <<" ">>,
      <<"a">>,
      <<"a", "b">>,
      <<"A", "B">>,
      <<"a", "b", " ", "c">>,
      <<"a", "b", " ", "c", "d">>,
      <<"c", "d", " ", " ", "a", "b">>,
      <<"a", "b", " ", "a", "b">>,
      <<"e", "f", " ", "g", "h">>,
      <<"a", "b", " ", "C", "D", " ", "e", "f">>,
      <<"c", "d">> }

FnInit ==
    /\ RunIdle
    /\ ScoreIdle
    /\ HandlerIdle
    /\ ConnIdle
    /\ EnvIdle
    /\ str1 \in FnStrings
    /\ str2 \in FnStrings
    /\ fn_result = NoScore

\* one call of __shared_words_percentage(str1, str2)
SharedWords ==
    /\ fn_result = NoScore
    /\ fn_result' = SharedWordsPercentage(str1, str2)
    /\ UNCHANGED <<str1, str2, envVars>>
    /\ UNCHANGED <<runVars, scoreVars, handlerVars, connVars>>

FnNext == SharedWords

FnSpec == FnInit /\ [][FnNext]_vars

----------------------------------------------------------------------------
(* retrieve_requests and _prepare_context_objects,                          *)
(* src/plugins/iga/conductorone_cron/plugin.py                              *)

\* Emails of the directory: the requester's, the same address in another
\* case, and two other users'.
ConnEmails == <<"r@x", "R@x", "m1@x", "m2@x">>

\* client.get_entitlement_members: a mapping email -> profile, as the
\* sequence of its items; every subset of the directory, in its order.
ConnMemberMaps ==
    { SelectSeq([i \in 1..Len(ConnEmails) |->
                    Member(ConnEmails[i],
                           Profile(Ids[i], <<"a", "b", ",", " ", "c", "d">>,
                                   "organizational_unit", <<"g", "h">>))],
                LAMBDA m : m.email \in keep) :
        keep \in SUBSET Range(ConnEmails) }

\* _user_api_response.get("email"): an address, or None
UserEmails == {"r@x", "m1@x", "q@x", "None"}

\* Mutant: members.pop(email) with no default, which raises for a missing key.
PopMemberStrict(members, email) ==
    IF \E i \in 1..Len(members) : members[i].email = email
    THEN Returned(List(SelectSeq(members, LAMBDA m : m.email # email)))
    ELSE Raised("KeyError")

\* line 202: entitlement.members.pop(email, None)
PopMember(members, email) ==
    Returned(List(SelectSeq(members, LAMBDA m : m.email # email)))

ConnInit ==
    /\ RunIdle
    /\ ScoreIdle
    /\ HandlerIdle
    /\ FnIdle
    /\ TokenIdle
    /\ ApproveIdle
    /\ cpc = "search"
    /\ task_summaries = <<>>
    /\ task = 0
    /\ entitlement_members = <<>>
    /\ user_email = "none"
    /\ prepared = <<>>

\* lines 63-65: client.search_tasks
SearchTasks ==
    /\ cpc = "search"
    /\ \E n \in 0..MaxTasks :
         task_summaries' = [i \in 1..n |-> [id |-> i, task_target_user_id |-> "u0"]]
    /\ cpc' = "loop"
    /\ UNCHANGED <<task, entitlement_members, user_email, prepared>>
    /\ UNCHANGED <<runVars, scoreVars, handlerVars, fnVars, tokenVars, approveVars>>

\* line 66: the next task summary, or line 72: return access_requests
NextTask ==
    /\ cpc = "loop"
    /\ IF task < Len(task_summaries)
       THEN task' = task + 1 /\ cpc' = "entitlement"
       ELSE task' = task /\ cpc' = "done"
    /\ UNCHANGED <<task_summaries, entitlement_members, user_email, prepared>>
    /\ UNCHANGED <<runVars, scoreVars, handlerVars, fnVars, tokenVars, approveVars>>

\* lines 171-194: the entitlement is built around the members mapping the
\* API returned
BuildEntitlement ==
    /\ cpc = "entitlement"
    /\ entitlement_members' \in ConnMemberMaps
    /\ cpc' = "user"
    /\ UNCHANGED <<task_summaries, task, user_email, prepared>>
    /\ UNCHANGED <<runVars, scoreVars, handlerVars, fnVars, tokenVars, approveVars>>

\* lines 197-228 and 70: get_user, the requester's entry is popped, the
\* Requester and the AccessRequest are built and the request is appended
PrepareRequest ==
    /\ cpc = "user"
    /\ \E email \in UserEmails :
         LET r == PopMember(entitlement_members, email)
         IN /\ user_email' = email
            /\ IF r.status = "raise"
               THEN /\ cpc' = "raised"
                    /\ UNCHANGED <<entitlement_members, prepared>>
               ELSE /\ cpc' = "loop"
                    /\ entitlement_members' = r.value.items
                    /\ prepared' = Append(prepared,
                          [id |-> task_summaries[task].id,
                           requester |-> [id |-> task_summaries[task].task_target_user_id,
                                          email |-> email],
                           entitlement |-> [members |-> r.value.items]])
    /\ UNCHANGED <<task_summaries, task>>
    /\ UNCHANGED <<runVars, scoreVars, handlerVars, fnVars, tokenVars, approveVars>>

ConnNext ==
    \/ SearchTasks
    \/ NextTask
    \/ BuildEntitlement
    \/ PrepareRequest

ConnSpec == ConnInit /\ [][ConnNext]_vars

----------------------------------------------------------------------------
(* _get_access_token and _is_jwt_expired,                                    *)
(* src/plugins/iga/conductorone_cron/plugin.py                               *)

margin_time == 300

\* The exp claims of the JWTs that are issued: the margin past the clock's
\* first ticks.
TokenExps == {margin_time + 1, margin_time + 2}

\* What the n-th call of client.authenticate may return: result["access_token"]
\* is whatever the token endpoint sent.
IssuedTokens(n) ==
    { NoToken, Token("empty", 0, n), Token("undecodable", 0, n),
      Token("noexp", 0, n) }
    \cup { Token("jwt", e, n) : e \in TokenExps }

\* Mutant: the token is taken as expired from the margin on, not after it.
IsJwtExpiredFromMargin(jwt, current_time) ==
    IF jwt.kind # "jwt" THEN TRUE
    ELSE current_time >= jwt.exp - margin_time

\* _is_jwt_expired, lines 230-268: True when splitting, decoding or parsing
\* raises, True when there is no exp claim, else the test of line 264
IsJwtExpired(jwt, current_time) ==
    IF jwt.kind # "jwt" THEN TRUE
    ELSE current_time > jwt.exp - margin_time

\* line 150: not self.access_token
TokenNotSet(token) == token.kind \in {"none", "empty"}

TokenInit ==
    /\ RunIdle
    /\ ScoreIdle
    /\ HandlerIdle
    /\ FnIdle
    /\ cpc = "idle"
    /\ task_summaries = <<>>
    /\ task = 0
    /\ entitlement_members = <<>>
    /\ user_email = "none"
    /\ prepared = <<>>
    /\ ApproveIdle
    /\ TokenIdle

\* _get_access_token, lines 140-153; client.authenticate returns a token or
\* raises, and what it raises leaves _get_access_token
GetAccessToken ==
    /\ token_calls < MaxTokenCalls
    /\ token_calls' = token_calls + 1
    /\ IF TokenNotSet(access_token) \/ IsJwtExpired(access_token, now)
       THEN /\ authentications' = authentications + 1
            /\ \/ \E t \in IssuedTokens(authentications + 1) :
                     /\ issued' = t
                     /\ access_token' = t
                     /\ token_returned' = t
                     /\ token_exc' = "none"
               \/ /\ token_exc' = "AuthenticationError"
                  /\ token_returned' = NoToken
                  /\ UNCHANGED <<issued, access_token>>
       ELSE /\ token_returned' = access_token
            /\ token_exc' = "none"
            /\ UNCHANGED <<authentications, issued, access_token>>
    /\ UNCHANGED now
    /\ UNCHANGED <<cpc, task_summaries, task, entitlement_members, user_email,
                   prepared, approveVars>>
    /\ UNCHANGED <<runVars, scoreVars, handlerVars, fnVars>>

\* time.time() moves on between two calls
Tick ==
    /\ now < MaxTime
    /\ now' = now + 1
    /\ UNCHANGED <<access_token, token_calls, authentications, issued,
                   token_returned, token_exc>>
    /\ UNCHANGED <<cpc, task_summaries, task, entitlement_members, user_email,
                   prepared, approveVars>>
    /\ UNCHANGED <<runVars, scoreVars, handlerVars, fnVars>>

TokenNext ==
    \/ GetAccessToken
    \/ Tick

TokenSpec == TokenInit /\ [][TokenNext]_vars

----------------------------------------------------------------------------
(* approve_request, src/plugins/iga/conductorone_cron/plugin.py, over the    *)
(* client of src/gadjit/plugins/iga/conductorone_cron/api.py                 *)

\* The AccessRequests approve_request is given: the task id, and the policy
\* step id stored in iga_metadata when the request was retrieved ("None":
\* iga_metadata has no such key).
ApprovalRequests ==
    [id : {"t1", "t2"}, policy_step_id : {"None", "s0", "s1"}]

\* config.get("reassign_to_user")
ReassignUsers == {"None", "admin"}

\* What get_task may return: a JSON object without taskView (or with a null
\* on the path to task.policy.current), or one with the path, whose current
\* step has an id or none.
TaskReplies ==
    { TaskReply("no_task_view", "None") }
    \cup { TaskReply("task_view", id) : id \in {"None", "s0", "s1", "s2"} }

ApproveInit ==
    /\ RunIdle
    /\ ScoreIdle
    /\ HandlerIdle
    /\ FnIdle
    /\ cpc = "idle"
    /\ task_summaries = <<>>
    /\ task = 0
    /\ entitlement_members = <<>>
    /\ user_email = "none"
    /\ prepared = <<>>
    /\ TokenIdle
    /\ apc = "reassign"
    /\ approval_request \in ApprovalRequests
    /\ reassign_to_user \in ReassignUsers
    /\ api_calls = <<>>
    /\ task_reply = NoTaskReply
    /\ new_task_policy_step_id = "None"
    /\ aexc = "none"

\* An argument self._get_access_token() raised: the client call is not made.
TokenFails ==
    /\ apc \in {"reassign", "get_task", "approve"}
    /\ apc' = "raised"
    /\ aexc' = "AuthenticationError"
    /\ UNCHANGED <<approval_request, reassign_to_user, api_calls, task_reply,
                   new_task_policy_step_id>>
    /\ UNCHANGED <<cpc, task_summaries, task, entitlement_members, user_email,
                   prepared, tokenVars>>
    /\ UNCHANGED <<runVars, scoreVars, handlerVars, fnVars>>

\* lines 103-108: client.reassign_task, which raises for an error status
\* (api.py lines 339-340)
ReassignTask ==
    /\ apc = "reassign"
    /\ \E ok \in BOOLEAN :
         /\ api_calls' = Append(api_calls,
                ApiCall("reassign_task", approval_request.id,
                        approval_request.policy_step_id, reassign_to_user, ok))
         /\ IF ok THEN apc' = "get_task" /\ aexc' = aexc
            ELSE apc' = "raised" /\ aexc' = "HTTPError"
    /\ UNCHANGED <<approval_request, reassign_to_user, task_reply,
                   new_task_policy_step_id>>
    /\ UNCHANGED <<cpc, task_summaries, task, entitlement_members, user_email,
                   prepared, tokenVars>>
    /\ UNCHANGED <<runVars, scoreVars, handlerVars, fnVars>>

\* lines 111-118: client.get_task, which raises for no status (api.py lines
\* 361-363) but may fail to connect or to parse, and the chain of get calls
\* on what it returned
GetTask ==
    /\ apc = "get_task"
    /\ \/ /\ api_calls' = Append(api_calls,
                   ApiCall("get_task", approval_request.id, "None", "None", FALSE))
          /\ apc' = "raised"
          /\ aexc' = "RequestException"
          /\ UNCHANGED <<task_reply, new_task_policy_step_id>>
       \/ \E reply \in TaskReplies :
            /\ api_calls' = Append(api_calls,
                   ApiCall("get_task", approval_request.id, "None", "None", TRUE))
            /\ task_reply' = reply
            /\ IF reply.shape = "no_task_view"
               THEN /\ apc' = "raised"
                    /\ aexc' = "AttributeError"
                    /\ UNCHANGED new_task_policy_step_id
               ELSE /\ apc' = "approve"
                    /\ aexc' = aexc
                    /\ new_task_policy_step_id' = reply.id
    /\ UNCHANGED <<approval_request, reassign_to_user>>
    /\ UNCHANGED <<cpc, task_summaries, task, entitlement_members, user_email,
                   prepared, tokenVars>>
    /\ UNCHANGED <<runVars, scoreVars, handlerVars, fnVars>>

\* Mutant: the approval is sent for the step stored with the request.
ApproveTaskWithStoredStep ==
    /\ apc = "approve"
    /\ \E ok \in BOOLEAN :
         /\ api_calls' = Append(api_calls,
                ApiCall("approve_task", approval_request.id,
                        approval_request.policy_step_id, "None", ok))
         /\ IF ok THEN apc' = "returned" /\ aexc' = aexc
            ELSE apc' = "raised" /\ aexc' = "HTTPError"
    /\ UNCHANGED <<approval_request, reassign_to_user, task_reply,
                   new_task_policy_step_id>>
    /\ UNCHANGED <<cpc, task_summaries, task, entitlement_members, user_email,
                   prepared, tokenVars>>
    /\ UNCHANGED <<runVars, scoreVars, handlerVars, fnVars>>

\* lines 121-123: client.approve_task, which raises for an error status
\* (api.py lines 395-396)
ApproveTask ==
    /\ apc = "approve"
    /\ \E ok \in BOOLEAN :
         /\ api_calls' = Append(api_calls,
                ApiCall("approve_task", approval_request.id,
                        new_task_policy_step_id, "None", ok))
         /\ IF ok THEN apc' = "returned" /\ aexc' = aexc
            ELSE apc' = "raised" /\ aexc' = "HTTPError"
    /\ UNCHANGED <<approval_request, reassign_to_user, task_reply,
                   new_task_policy_step_id>>
    /\ UNCHANGED <<cpc, task_summaries, task, entitlement_members, user_email,
                   prepared, tokenVars>>
    /\ UNCHANGED <<runVars, scoreVars, handlerVars, fnVars>>

ApproveNext ==
    \/ TokenFails
    \/ ReassignTask
    \/ GetTask
    \/ ApproveTask

ApproveSpec == ApproveInit /\ [][ApproveNext]_vars

----------------------------------------------------------------------------
(* process_env_variables, src/gadjit/utils.py *)

EnvPrefix == <<"e", "n", "v", ":">>

\* str.startswith
StartsWith(s, prefix) ==
    Len(s) >= Len(prefix) /\ SubSeq(s, 1, Len(prefix)) = prefix

\* os.getenv(name): None for a variable that is not set
Getenv(env, name) == IF name \in DOMAIN env THEN env[name] ELSE EnvNotSet

\* lines 25 and 37: isinstance(value, str) and value.startswith("env:")
IsEnvReference(value) == value.kind = "str" /\ StartsWith(value.text, EnvPrefix)

\* Mutant: only nested dicts are processed.
IsContainerDictOnly(value) == value.kind = "dict"

\* lines 33 and 45: isinstance(value, (dict, list))
IsContainer(value) == value.kind \in {"dict", "list"}

RECURSIVE ProcessEnvVariables(_, _)
RECURSIVE ProcessEnvItems(_, _, _)

\* lines 24-34 and 36-46: the for loop over the items of a dict or a list,
\* from the i-th on; the container is changed in place, so what was replaced
\* before an exception stays replaced
ProcessEnvItems(cfg, env, i) ==
    IF i > Len(cfg.items) THEN EnvReturned(cfg)
    ELSE LET value == cfg.items[i]
         IN IF IsEnvReference(value)
            THEN LET env_var_name == SubSeq(value.text, Len(EnvPrefix) + 1,
                                            Len(value.text))
                     env_value == Getenv(env, env_var_name)
                 IN IF ~env_value.set THEN EnvRaised(cfg, env_var_name)
                    ELSE ProcessEnvItems(
                             [cfg EXCEPT !.items[i] = ConfigStr(env_value.text)],
                             env, i + 1)
            ELSE IF IsContainer(value)
            THEN LET r == ProcessEnvVariables(value, env)
                     updated == [cfg EXCEPT !.items[i] = r.config]
                 IN IF r.status = "raise" THEN EnvRaised(updated, r.name)
                    ELSE ProcessEnvItems(updated, env, i + 1)
            ELSE ProcessEnvItems(cfg, env, i + 1)

\* process_env_variables, lines 7-47
ProcessEnvVariables(cfg, env) ==
    IF cfg.kind \in {"dict", "list"} THEN ProcessEnvItems(cfg, env, 1)
    ELSE EnvReturned(cfg)

\* The values at the leaves of a configuration: references to the variables
\* A and B, a reference with an empty name, a string that holds "env:" but
\* does not start with it, and a value that is no string.
EnvLeaves ==
    { ConfigStr(EnvPrefix \o <<"A">>),
      ConfigStr(EnvPrefix \o <<"B">>),
      ConfigStr(EnvPrefix),
      ConfigStr(<<"a">> \o EnvPrefix \o <<"A">>),
      ConfigOther }

KeyNames == <<"k1", "k2", "k3", "k4">>

\* A dict or a list of the given items.
Container(kind, items) ==
    IF kind = "dict" THEN ConfigDict(SubSeq(KeyNames, 1, Len(items)), items)
    ELSE ConfigList(items)

\* Dicts and lists of at most MaxItems leaves.
EnvFlat ==
    { Container(kind, items) :
        kind \in {"dict", "list"},
        items \in UNION { [1..n -> EnvLeaves] : n \in 0..MaxItems } }

\* Dicts and lists that hold a dict or list of leaves, alone, after a leaf or
\* before one.
EnvNested ==
    { Container(kind, items) :
        kind \in {"dict", "list"},
        items \in { <<c>> : c \in EnvFlat }
                   \cup { <<l, c>> : l \in EnvLeaves, c \in EnvFlat }
                   \cup { <<c, l>> : l \in EnvLeaves, c \in EnvFlat } }

\* Dicts and lists that hold one of those.
EnvNestedTwice ==
    { Container(kind, <<c>>) : kind \in {"dict", "list"}, c \in EnvNested }

EnvConfigs == EnvFlat \cup EnvNested \cup EnvNestedTwice

\* os.environ: A is not set, empty, a plain value or a value that itself
\* starts with "env:"; B is set or not.
Environs ==
    { [n \in {<<"A">>, <<"B">>} |-> IF n = <<"A">> THEN a ELSE b] :
        a \in { EnvNotSet, EnvSet(<<>>), EnvSet(<<"v">>),
                 EnvSet(EnvPrefix \o <<"B">>) },
        b \in { EnvNotSet, EnvSet(<<"w">>) } }

EnvInit ==
    /\ RunIdle
    /\ ScoreIdle
    /\ HandlerIdle
    /\ ConnIdle
    /\ str1 = <<>>
    /\ str2 = <<>>
    /\ fn_result = NoScore
    /\ env_config \in EnvConfigs
    /\ environ \in Environs
    /\ env_result = NoEnvResult

\* one call of process_env_variables(env_config)
ProcessEnv ==
    /\ env_result = NoEnvResult
    /\ env_result' = ProcessEnvVariables(env_config, environ)
    /\ UNCHANGED <<env_config, environ, str1, str2, fn_result>>
    /\ UNCHANGED <<runVars, scoreVars, handlerVars, connVars>>

EnvNext == ProcessEnv

EnvSpec == EnvInit /\ [][EnvNext]_vars

----------------------------------------------------------------------------
(* Claims about run *)

\* The request idx has been decided; results holds what its providers returned.
Processed == decision.outcome # "none"

SomeNegative(scores) == \E i \in 1..Len(scores) : scores[i].n < 0
SomeZero(scores) == \E i \in 1..Len(scores) : scores[i].n = 0

\* The arithmetic mean of all the values of a non-empty sequence.
Mean(scores) == RDivInt(RSum(scores), Len(scores))

\* f is a multiple of 1/100 at distance at most 1/200 from x.
IsRoundedTo2(f, x) ==
    /\ f.d # 0 /\ 100 % f.d = 0
    /\ LET diff == RAdd(f, RMul(R(-1, 1), x))
       IN RLeq([n |-> Abs(diff.n), d |-> diff.d], R(1, 200))

\* C1. Veto precedence: whenever a request has been decided and at least one
\* provider returned a score below 0, the outcome is Reject, whatever the
\* other providers returned and whatever the average is.
C1_VetoPrecedence ==
    (Processed /\ SomeNegative(results)) => decision.outcome = "Reject"

\* Providers returned [-1, 2.0] and the request was rejected.
C1_Witness ==
    /\ results = <<R(-1, 1), R(2, 1)>>
    /\ decision.outcome = "Reject"

\* C2. Forced review: whenever a request has been decided, no provider
\* returned a negative score and at least one returned exactly 0, the outcome
\* is Hold-for-review, even when the average is at least 1.0.
C2_ForcedReview ==
    (Processed /\ ~SomeNegative(results) /\ SomeZero(results))
        => decision.outcome = "Hold"

\* Providers returned [0, 2.0], the average is 1.0 and the request is held.
C2_Witness ==
    /\ results = <<RZero, R(2, 1)>>
    /\ decision.final_score = ROne
    /\ decision.outcome = "Hold"

\* C3 (as claimed). approve_request is issued for a request only if the
\* request is an Approve-candidate (no negative score, no zero score, rounded
\* average at least 1.0) and its entitlement is on the allow-list.
C3_ApproveOnlyWhenGated ==
    \A i \in 1..Len(calls) :
        (calls[i].op = "approve_request" /\ calls[i].req = idx) =>
            /\ ~SomeNegative(results)
            /\ ~SomeZero(results)
            /\ RLeq(ROne, decision.final_score)
            /\ OnAllowList(access_requests[idx], config)

\* C4. The decision policy is total and exclusive: once the loop body has run
\* for a request, its outcome is one of Reject, Hold, Approve, and it is
\* Approve exactly when no provider returned a negative score, none returned
\* 0, and the average score is at least 1.0.
C4_DecisionTotal ==
    /\ (pc \in {"loop", "done"} /\ idx >= 1)
            => decision.outcome \in {"Reject", "Hold", "Approve"}
    /\ Processed =>
          (decision.outcome = "Approve" <=>
              /\ ~SomeNegative(results)
              /\ ~SomeZero(results)
              /\ RLeq(ROne, decision.final_score))

\* Providers returned [0.5, 1.5]: average 1.0, Approve-candidate.
C4_Witness ==
    /\ results = <<R(1, 2), R(3, 2)>>
    /\ decision.final_score = ROne
    /\ decision.outcome = "Approve"

\* C5. Once a request has been decided, every enabled scoring provider has
\* been invoked exactly once for it, and the average score is the arithmetic
\* mean of all returned results, negative and zero ones included, rounded to
\* two decimal places.
C5_AggregatedAverage ==
    Processed =>
        /\ Len(results) = config.scoring
        /\ \A p \in 1..config.scoring : invoked[p] = 1
        /\ IsRoundedTo2(decision.final_score, Mean(results))

\* Providers returned [-1, 0.125]: both were invoked after the veto, and the
\* mean -0.4375 is rounded to -0.44.
C5_Witness ==
    /\ results = <<R(-1, 1), R(1, 8)>>
    /\ invoked = <<1, 1>>
    /\ decision.final_score = R(-44, 100)

\* C6. When the number of enabled IGA plugins is not 1, or the number of
\* enabled LLM plugins is not 1, or no scoring plugin is enabled, run does
\* nothing but raise RuntimeError: no retrieve_requests, scoring, comment or
\* approve call is made.
C6_ConfigErrorsFirst ==
    (config.iga # 1 \/ config.llm # 1 \/ config.scoring < 1) =>
        /\ pc \in {"start", "raised"}
        /\ pc = "raised" => exc = "RuntimeError"
        /\ calls = <<>>
        /\ invoked = <<>>
        /\ results = <<>>

\* One IGA and one LLM plugin but no scoring plugin: run has raised.
C6_Witness ==
    /\ config.iga = 1 /\ config.llm = 1 /\ config.scoring = 0
    /\ pc = "raised" /\ exc = "RuntimeError"

\* C7. When a provider's compute_scores raises while the request idx is being
\* scored, run ends with that exception, no decision is made for the request
\* and no connector call is issued for it.
C7_ProviderExceptionSurfaces ==
    provider_raised =>
        /\ pc = "raised" /\ exc = "ProviderError"
        /\ decision = NoDecision
        /\ \A i \in 1..Len(calls) : calls[i].req # idx

\* The second provider raised after the first one returned a veto.
C7_Witness ==
    /\ provider_raised
    /\ results = <<R(-1, 1)>>
    /\ config.scoring = 2
    /\ idx = 2

\* The comment_request calls issued so far.
CommentCalls == SelectSeq(calls, LAMBDA c : c.op = "comment_request")

\* C14. The rejection comment never holds the score, whatever
\* include_score_in_comments is, so that all the rejection comments of a run
\* are one and the same text; a Hold-for-review or Approve-candidate comment
\* ends with the score exactly when include_score_in_comments is set to true
\* (absent counts as not set).
C14_ScoreDisclosure ==
    /\ Processed =>
          IF decision.outcome = "Reject"
          THEN decision.comment = [kind |-> "reject", score |-> NoScore]
          ELSE /\ config.include_score_in_comments = "true"
                    => decision.comment.score = decision.final_score
               /\ config.include_score_in_comments \in {"absent", "false"}
                    => decision.comment.score = NoScore
    /\ \A i \in 1..Len(CommentCalls) :
          /\ CommentCalls[i].comment.kind = "reject" => CommentCalls[i].comment.score = NoScore
          /\ \A j \in 1..Len(CommentCalls) :
                (CommentCalls[i].comment.kind = "reject"
                    /\ CommentCalls[j].comment.kind = "reject")
                  => CommentCalls[i].comment = CommentCalls[j].comment

\* With include_score_in_comments set, two requests were vetoed one after the
\* other; the second one's score is -0.44 and its comment has no score.
C14_Witness ==
    /\ config.include_score_in_comments = "true"
    /\ idx = 2
    /\ Len(CommentCalls) = 2
    /\ decision.outcome = "Reject"
    /\ decision.final_score = R(-44, 100)
    /\ decision.comment.score = NoScore

\* C15 (as claimed). Once a request has been decided Hold-for-review or
\* Approve-candidate, its rendered comment has been posted through
\* comment_request, and an Approve-candidate that is not on the allow-list has
\* no approve_request call.
C15_DecidedRequestsAnnotated ==
    (Processed /\ pc = "loop" /\ decision.outcome \in {"Hold", "Approve"}) =>
        /\ \E i \in 1..Len(calls) :
              /\ calls[i].op = "comment_request"
              /\ calls[i].req = idx
              /\ calls[i].comment = decision.comment
        /\ ~decision.on_allow_list =>
              \A i \in 1..Len(calls) :
                  ~(calls[i].op = "approve_request" /\ calls[i].req = idx)

\* C19 (as claimed). lambda_handler returns statusCode 200 with success true
\* when run completed, and statusCode 500 with success false and the
\* exception's message when run raised; no exception leaves it.
C19_HandlerReportsOutcome ==
    response # NoResponse =>
        /\ response.kind = "return"
        /\ pc = "done" => response = Response(200, TRUE, "none")
        /\ pc = "raised" => response = Response(500, FALSE, exc)

----------------------------------------------------------------------------
(* Claims about compute_scores *)

\* The member-proximity sub-score of the request, from the overlap lists the
\* two matching calls returned (both are lists whenever compute_scores returns).
SubScore ==
    MemberScore(MemberTally(access_request, title_results.items,
                            supervisoryorg_results.items))

\* C8 (as claimed). When the members mapping is empty, the member-overlap
\* matching yields [] whatever the LLM replies, and compute_scores returns 0.
C8_EmptyMembersScoreZero ==
    access_request.entitlement.members = <<>> =>
        /\ title_results \in {Unset, List(<<>>)}
        /\ supervisoryorg_results \in {Unset, List(<<>>)}
        /\ spc = "returned" => score = RZero

\* C9. (a) When the title query or the organizational-unit query returned
\* null, compute_scores does not return a score: once the three queries have
\* been made it raises (TypeError).  (b) When the two member-overlap queries
\* returned complete JSON answers and only the entitlement-relevance query
\* returned null, compute_scores does not raise and returns the unscaled
\* member-proximity sub-score.
C9_NullReplyFatalOnlyForOverlap ==
    /\ (title_reply = "null" \/ org_reply = "null") =>
          /\ spc \in {"org", "entitlement", "tally", "raised"}
          /\ (spc = "raised" /\ ent_reply \in {"null", "empty", "object"})
                => sexc = "TypeError"
    /\ (title_reply = "object" /\ org_reply = "object" /\ ent_reply = "null") =>
          /\ spc \in {"tally", "returned"}
          /\ sexc = "none"
          /\ spc = "returned" => score = SubScore

\* The title query was answered with candidates, the organizational-unit
\* query returned null, the relevance query was answered, and compute_scores
\* raised TypeError.
C9_Witness ==
    /\ title_reply = "object" /\ title_results # List(<<>>)
    /\ org_reply = "null"
    /\ ent_reply = "object"
    /\ spc = "raised" /\ sexc = "TypeError"

\* C10. When compute_scores returns, the score is the member-proximity
\* sub-score times the relationship_score that the relevance query
\* (_match_user_properties_to_entitlement_properties) yielded, and the sub-score
\* itself when that query yielded none (None: a null reply, no such key, a null
\* or a zero value).
C10_FinalScoreScaling ==
    spc = "returned" =>
        IF entitlement_properties_results.kind = "num"
        THEN score = RMul(SubScore, entitlement_properties_results.v)
        ELSE /\ entitlement_properties_results = None
             /\ score = SubScore

\* Sub-score 1/2 scaled by a relationship_score of 3/2 gives 3/4.
C10_Witness ==
    /\ spc = "returned"
    /\ SubScore = R(1, 2)
    /\ entitlement_properties_results = Num(R(3, 2))
    /\ score = R(3, 4)

\* C12. Malformed JSON in the reply to a member-overlap query is fatal: the
\* query's matching returns nothing, compute_scores ends by raising
\* JSONDecodeError and returns no score.
C12_MalformedOverlapFatal ==
    /\ title_reply = "malformed" =>
          /\ spc = "raised" /\ sexc = "JSONDecodeError"
          /\ title_results = Unset /\ score = NoScore
    /\ org_reply = "malformed" =>
          /\ spc = "raised" /\ sexc = "JSONDecodeError"
          /\ supervisoryorg_results = Unset /\ score = NoScore

\* The title query returned candidates, then the organizational-unit query
\* returned text that is not JSON.
C12_Witness ==
    /\ title_reply = "object" /\ title_results # List(<<>>)
    /\ org_reply = "malformed"
    /\ spc = "raised" /\ sexc = "JSONDecodeError"

\* C13 (as claimed). A reply that wraps valid JSON in a markdown code fence is
\* parsed as the unfenced JSON is: the fenced reply {"overlap_users": []}
\* raises no parse error and yields the empty overlap list.
C13_FenceTolerance ==
    /\ title_reply = "fenced" =>
          /\ sexc # "JSONDecodeError"
          /\ title_results = List(<<>>)
    /\ org_reply = "fenced" =>
          /\ sexc # "JSONDecodeError"
          /\ supervisoryorg_results = List(<<>>)

\* The emails that key the members mapping of the request.
MemberEmails(req) ==
    { req.entitlement.members[i].email : i \in 1..Len(req.entitlement.members) }

\* The same request with every member's email replaced by another address,
\* ids and profile fields kept.
OtherEmail(email) ==
    IF email = "m1@x" THEN "n1@y" ELSE IF email = "m2@x" THEN "n2@y" ELSE "n3@y"

WithOtherEmails(req) ==
    [req EXCEPT !.entitlement.members =
        [i \in 1..Len(@) |-> [email |-> OtherEmail(@[i].email), profile |-> @[i].profile]]]

\* What the i-th query of compute_scores sends for a request.
PromptsOfQuery(i, req) ==
    IF i = 1 THEN ProfileFieldPrompts("title_and_department",
                      req.requester.title_and_department, req.entitlement.members)
    ELSE IF i = 2 THEN ProfileFieldPrompts("SupervisoryOrganization",
                      req.requester.supervisory_organization, req.entitlement.members)
    ELSE EntitlementPrompts(req.requester.title_and_department,
                            req.entitlement.name, req.entitlement.description)

\* C16. Every prompt sent to the LLM lists the members by id and field value:
\* no key of the members mapping (an email) is the key of a listed line or an
\* example id of the system prompt, and the prompts sent are those the same
\* request with other member emails would send.
C16_PromptsHideEmails ==
    \A i \in 1..Len(prompts) :
        /\ \A k \in 1..Len(prompts[i].user.lines) :
              /\ prompts[i].user.lines[k].key \notin MemberEmails(access_request)
              /\ \E j \in 1..Len(access_request.entitlement.members) :
                    prompts[i].user.lines[k].key =
                        access_request.entitlement.members[j].profile.id
        /\ Range(prompts[i].system.example_ids) \cap MemberEmails(access_request) = {}
        /\ prompts[i] = PromptsOfQuery(i, WithOtherEmails(access_request))

\* Both overlap queries were sent for an entitlement with two members; the
\* second lists them in reversed order, by id.
C16_Witness ==
    /\ Len(prompts) >= 2
    /\ Len(access_request.entitlement.members) = 2
    /\ prompts[2].user.lines[1].key = "u2"
    /\ prompts[2].user.lines[2].key = "u1"

\* C18. compute_scores leaves its inputs as they are: no step of it changes
\* the AccessRequest, its requester, its entitlement or the members mapping.
C18_InputsUnchanged == [][access_request' = access_request]_vars

\* compute_scores returned a non-zero score for an entitlement with members.
C18_Witness ==
    /\ spc = "returned"
    /\ access_request.entitlement.members # <<>>
    /\ score # RZero

\* Some overlap query returned candidates.
HasCandidates ==
    /\ title_results.kind = "list" /\ supervisoryorg_results.kind = "list"
    /\ title_results.items \o supervisoryorg_results.items # <<>>

\* The greatest number of overlap entries, over both lists, that name one id.
MaxEntriesPerId ==
    LET es == title_results.items \o supervisoryorg_results.items
        Count(u) == Cardinality({i \in 1..Len(es) : es[i].user = u})
    IN CHOOSE n \in 0..Len(es) :
         /\ \A i \in 1..Len(es) : Count(es[i].user) <= n
         /\ \E i \in 1..Len(es) : Count(es[i].user) = n

\* The multiplier applied to the sub-score: 1 when none was returned.
Multiplier ==
    IF entitlement_properties_results.kind = "num"
    THEN entitlement_properties_results.v ELSE ROne

----------------------------------------------------------------------------
(* Claims about the connector *)

\* C17. Every AccessRequest retrieve_requests has prepared has no entry keyed
\* by its requester's email in its entitlement's members mapping, and
\* preparing a request never raises, whether or not the requester was a
\* member.
C17_RequesterExcluded ==
    /\ cpc # "raised"
    /\ \A i \in 1..Len(prepared) :
          \A k \in 1..Len(prepared[i].entitlement.members) :
              prepared[i].entitlement.members[k].email # prepared[i].requester.email

\* Two requests were prepared: the first requester was one of three members
\* and was removed, the second was not a member of a one-member entitlement.
C17_Witness ==
    /\ Len(prepared) = 2
    /\ prepared[1].requester.email = "m1@x"
    /\ Len(prepared[1].entitlement.members) = 2
    /\ prepared[2].requester.email = "q@x"
    /\ Len(prepared[2].entitlement.members) = 1
    /\ cpc = "done"

----------------------------------------------------------------------------
(* Claims about __shared_words_percentage *)

\* C11. The shared-words ratio is symmetric (the value returned for (a, b) is
\* the value of the function at (b, a)), lies in [0, 1], and is 0 when both
\* strings are empty.
C11_RatioSymmetricBounded ==
    fn_result # NoScore =>
        /\ fn_result = SharedWordsPercentage(str2, str1)
        /\ RLeq(RZero, fn_result) /\ RLeq(fn_result, ROne)
        /\ (str1 = <<>> /\ str2 = <<>>) => fn_result = RZero

\* "ab cd" against "ab CD ef": two of three words shared.
C11_Witness ==
    /\ str1 = <<"a", "b", " ", "c", "d">>
    /\ str2 = <<"a", "b", " ", "C", "D", " ", "e", "f">>
    /\ fn_result = R(2, 3)

----------------------------------------------------------------------------
(* Claims about the tally and the scaling of compute_scores *)

\* The overlap entries of both result lists, title entries first, each with
\* the requester's value it is compared to.
AllEntries ==
    [i \in 1..Len(title_results.items) |->
        [user |-> title_results.items[i].user,
         ratio |-> SharedWordsPercentage(title_results.items[i].value,
                       access_request.requester.title_and_department)]]
    \o
    [i \in 1..Len(supervisoryorg_results.items) |->
        [user |-> supervisoryorg_results.items[i].user,
         ratio |-> SharedWordsPercentage(supervisoryorg_results.items[i].value,
                       access_request.requester.supervisory_organization)]]

\* The sum of the ratios of the entries of es that carry the id u.
RECURSIVE RatioSum(_, _)
RatioSum(es, u) ==
    IF es = <<>> THEN RZero
    ELSE RAdd(IF Head(es).user = u THEN Head(es).ratio ELSE RZero,
              RatioSum(Tail(es), u))

\* The sum of the tallies of a set of ids.
RECURSIVE TallySum(_, _)
TallySum(tally, ids) ==
    IF ids = {} THEN RZero
    ELSE LET u == CHOOSE x \in ids : TRUE
         IN RAdd(tally[u], TallySum(tally, ids \ {u}))

\* C23. When compute_scores returns, the tally has exactly one entry per
\* candidate id of the two overlap lists, and the tally of an id is the sum of
\* the shared-words ratios of all the entries that carry it, title and
\* organizational-unit entries alike.
C23_TallyAdditive ==
    spc = "returned" =>
        LET es == AllEntries
        IN /\ DOMAIN existing_member_tally = { es[i].user : i \in 1..Len(es) }
           /\ \A u \in DOMAIN existing_member_tally :
                 existing_member_tally[u] = RatioSum(es, u)

\* u1 was returned by the title query (ratio 1) and by the organizational-unit
\* query (ratio 1/2): its one tally is 3/2.
C23_Witness ==
    /\ spc = "returned"
    /\ Len(title_results.items) = 1 /\ title_results.items[1].user = "u1"
    /\ Len(supervisoryorg_results.items) = 1
    /\ supervisoryorg_results.items[1].user = "u1"
    /\ DOMAIN existing_member_tally = {"u1"}
    /\ existing_member_tally["u1"] = R(3, 2)

\* C24. When compute_scores returns, the member-proximity sub-score is the
\* mean of the three highest tallies, of all of them when there are fewer than
\* three ids, and 0 when there is none; a complete reply whose overlap_users is
\* null, absent or empty gives an empty list, not an error.
C24_TopThreeMean ==
    /\ (title_reply = "object" /\ spc # "title") => title_results.kind = "list"
    /\ (org_reply = "object" /\ spc \notin {"title", "org"})
            => supervisoryorg_results.kind = "list"
    /\ spc = "returned" =>
          LET ids == DOMAIN existing_member_tally
              k == IF Cardinality(ids) < 3 THEN Cardinality(ids) ELSE 3
          IN IF k = 0 THEN top_three_average = RZero
             ELSE \E S \in SUBSET ids :
                    /\ Cardinality(S) = k
                    /\ \A u \in S, w \in ids \ S :
                          RLeq(existing_member_tally[w], existing_member_tally[u])
                    /\ top_three_average = RDivInt(TallySum(existing_member_tally, S), k)

\* Four candidate ids with the tallies 1, 1/3, 1/2, 1/2: the mean of the three
\* highest is 2/3.
C24_Witness ==
    /\ spc = "returned"
    /\ Cardinality(DOMAIN existing_member_tally) = 4
    /\ top_three_average = R(2, 3)

\* C25. When the relevance reply holds a non-zero relationship_score r, the
\* score returned is the sub-score times r as it is, inside or outside
\* [0.5, 1.5]: an r below 0 with a positive sub-score gives a score below 0.
C25_MultiplierTrusted ==
    (spc = "returned" /\ entitlement_properties_results.kind = "num") =>
        LET r == entitlement_properties_results.v
        IN /\ r # RZero
           /\ score.n * top_three_average.d * r.d
                 = top_three_average.n * r.n * score.d
           /\ (RLess(r, RZero) /\ RLess(RZero, top_three_average))
                 => RLess(score, RZero)

\* Sub-score 1 with a relationship_score of -1, outside the advertised range:
\* the score is -1.
C25_Witness ==
    /\ spc = "returned"
    /\ top_three_average = ROne
    /\ entitlement_properties_results = Num(R(-1, 1))
    /\ score = R(-1, 1)

\* The member records are those the connector's get_entitlement_members of
\* src/gadjit/plugins/iga/conductorone_cron/api.py builds.
BuiltByConnector(members) ==
    /\ members # <<>>
    /\ \A i \in 1..Len(members) : members[i].profile.org_key = "organizational_unit"

\* C30 (as claimed). For a non-empty members mapping built by the connector,
\* the member records carry the keys the scoring plugin reads: compute_scores
\* raises no lookup error, and when it ends after the title query returned,
\* the organizational-unit query has been issued too.
C30_FieldNamesAgree ==
    BuiltByConnector(access_request.entitlement.members) =>
        /\ sexc # "KeyError"
        /\ (spc \in {"returned", "raised"} /\ title_results # Unset)
              => org_reply # "unasked"

----------------------------------------------------------------------------
(* Claims about the loop of run *)

\* One step of run keeps the order of the batch.
SequentialStep ==
    \* requests are taken one by one, in the order of the batch, which is fixed
    \* once retrieved
    /\ idx' \in {idx, idx + 1}
    /\ idx >= 1 => access_requests' = access_requests
    \* the next request starts only when the one before has been scored by
    \* every provider and decided
    /\ (idx' = idx + 1 /\ idx >= 1) =>
          /\ pc = "loop"
          /\ decision.outcome \in {"Reject", "Hold", "Approve"}
          /\ Len(results) = config.scoring
          /\ \A p \in 1..config.scoring : invoked[p] = 1
    \* a scoring call is made for the request in hand, providers in order
    /\ (invoked' # invoked /\ idx' = idx) =>
          /\ pc = "scoring"
          /\ \E p \in 1..config.scoring :
                /\ invoked[p] = 0
                /\ \A q \in 1..(p - 1) : invoked[q] = 1
                /\ invoked' = [invoked EXCEPT ![p] = 1]
    \* the connector actions issued stand, and a new one is for the request in
    \* hand
    /\ Len(calls') >= Len(calls)
    /\ SubSeq(calls', 1, Len(calls)) = calls
    /\ \A i \in (Len(calls) + 1)..Len(calls') :
          calls'[i].req = idx /\ (idx >= 1 => pc = "scoring")
    \* once a request has raised, run is over: no scoring call, no decision,
    \* no connector action, no further request
    /\ pc = "raised" =>
          /\ pc' = "raised" /\ exc' = exc
          /\ idx' = idx /\ cursor' = cursor
          /\ invoked' = invoked /\ results' = results
          /\ decision' = decision
          /\ calls' = calls

\* C28. The requests of a batch are processed one after another in the order
\* retrieve_requests returned them, each scored by every provider and decided
\* before the next starts; when processing a request raises, the connector
\* actions already issued stand, and no scoring call, decision or connector
\* action follows, for that request or for a later one.
C28_SequentialProcessing == [][SequentialStep]_vars

\* The first request of two was vetoed and commented; the second raised at
\* its first provider, the exception left lambda_handler, and the comment of
\* the first request is the only action issued for a request.
C28_Witness ==
    /\ Len(access_requests) = 2
    /\ idx = 2
    /\ pc = "raised" /\ exc = "ProviderError"
    /\ invoked[1] = 1
    /\ decision = NoDecision
    /\ Len(calls) = 2
    /\ calls[2].op = "comment_request" /\ calls[2].req = 1 /\ calls[2].ok
    /\ response = Propagated("ProviderError")

\* C29. With no negative and no zero score, the threshold is applied to the
\* average rounded to two decimals: the request is an Approve-candidate
\* exactly when the rounded average is at least 1.00 and held otherwise, so
\* an average above 0.995 is approved and one below 0.995 is held (0.995
\* itself is no float).
C29_ThresholdAfterRounding ==
    (Processed /\ ~SomeNegative(results) /\ ~SomeZero(results)) =>
        LET mean == Mean(results)
        IN /\ decision.outcome \in {"Approve", "Hold"}
           /\ IsRoundedTo2(decision.final_score, mean)
           /\ decision.outcome = "Approve" <=> RLeq(ROne, decision.final_score)
           /\ RLess(R(199, 200), mean) => decision.outcome = "Approve"
           /\ RLess(mean, R(199, 200)) => decision.outcome = "Hold"

\* One provider returned 0.99609375: below 1.0, rounded to 1.00, approved.
C29_Witness ==
    /\ results = <<R(255, 256)>>
    /\ decision.final_score = ROne
    /\ decision.outcome = "Approve"

----------------------------------------------------------------------------
(* Claims about the shared-words ratio as a Jaccard index *)

\* The reference tokens of a string: its maximal runs of characters that are
\* not whitespace, lower-cased, those of fewer than 2 characters dropped.
ReferenceTokens(s) ==
    { Lower(SubSeq(s, i, j)) : <<i, j>> \in
        { p \in (1..Len(s)) \X (1..Len(s)) :
            /\ p[2] - p[1] + 1 >= 2
            /\ \A k \in p[1]..p[2] : s[k] # " "
            /\ (p[1] = 1 \/ s[p[1] - 1] = " ")
            /\ (p[2] = Len(s) \/ s[p[2] + 1] = " ") } }

\* C22. The value returned for two strings is the Jaccard index of their
\* reference token sets: |intersection| / |union|, and 0 when the union is
\* empty.
C22_RatioIsJaccard ==
    fn_result # NoScore =>
        LET t1 == ReferenceTokens(str1)
            t2 == ReferenceTokens(str2)
            union == Cardinality(t1 \cup t2)
            shared == Cardinality(t1 \cap t2)
        IN IF union = 0 THEN fn_result = RZero
           ELSE fn_result.d > 0 /\ fn_result.n * union = shared * fn_result.d

\* "ab c" against "AB": the one-character word is dropped and the case is
\* ignored, so the token sets are equal and the ratio is 1.
C22_Witness ==
    /\ str1 = <<"a", "b", " ", "c">>
    /\ str2 = <<"A", "B">>
    /\ fn_result = ROne

----------------------------------------------------------------------------
(* Claims about process_env_variables *)

\* A string that starts with "env:", and the name that follows the prefix.
NamesVariable(v) ==
    /\ v.kind = "str"
    /\ Len(v.text) >= 4
    /\ SubSeq(v.text, 1, 4) = <<"e", "n", "v", ":">>

NameIn(v) == SubSeq(v.text, 5, Len(v.text))

\* The variables named by the "env:" strings among the values of a dict or a
\* list, at any depth.
RECURSIVE EnvReferences(_)
EnvReferences(node) ==
    IF node.kind \notin {"dict", "list"} THEN {}
    ELSE UNION { IF NamesVariable(node.items[i]) THEN { NameIn(node.items[i]) }
                 ELSE EnvReferences(node.items[i]) :
                 i \in 1..Len(node.items) }

\* after is before with every "env:" string among its values, at any depth,
\* replaced by the value of the variable it names, and nothing else changed.
RECURSIVE Resolved(_, _, _)
Resolved(before, after, env) ==
    /\ after.kind = before.kind
    /\ after.keys = before.keys
    /\ after.text = before.text
    /\ Len(after.items) = Len(before.items)
    /\ \A i \in 1..Len(before.items) :
          LET v == before.items[i]
              w == after.items[i]
          IN IF NamesVariable(v) THEN w = ConfigStr(env[NameIn(v)].text)
             ELSE IF v.kind \in {"dict", "list"} THEN Resolved(v, w, env)
             ELSE w = v

\* C21. A call of process_env_variables on a dict or a list raises exactly
\* when some "env:" string among its values, at any depth, names a variable
\* that is not set, and the RuntimeError names such a variable; otherwise it
\* returns the configuration with every such string replaced by the value of
\* its variable and every other value as it was.
C21_EnvResolved ==
    env_result # NoEnvResult =>
        LET unset == { n \in EnvReferences(env_config) :
                         n \notin DOMAIN environ \/ ~environ[n].set }
        IN IF unset = {}
           THEN /\ env_result.status = "return"
                /\ Resolved(env_config, env_result.config, environ)
           ELSE /\ env_result.status = "raise"
                /\ env_result.name \in unset

\* {"k1": [{"k1": "env:A", "k2": 7}]} with A set to "v": the string two
\* levels down is replaced, the number next to it is kept.
C21_Witness ==
    /\ env_config = ConfigDict(<<"k1">>,
                       << ConfigList(<< ConfigDict(<<"k1", "k2">>,
                              << ConfigStr(<<"e", "n", "v", ":", "A">>),
                                 ConfigOther >>) >>) >>)
    /\ environ[<<"A">>] = EnvSet(<<"v">>)
    /\ env_result.status = "return"
    /\ env_result.config = ConfigDict(<<"k1">>,
                       << ConfigList(<< ConfigDict(<<"k1", "k2">>,
                              << ConfigStr(<<"v">>), ConfigOther >>) >>) >>)

----------------------------------------------------------------------------
(* Claims about the access-token cache *)

\* One step of the cache, by the token cached and the clock before it.
TokenCacheStep ==
    LET cached == access_token
        judged_expired ==
            \/ cached.kind \in {"empty", "undecodable", "noexp"}
            \/ cached.kind = "jwt" /\ now > cached.exp - 300
        refresh == cached.kind = "none" \/ judged_expired
        called == token_calls' # token_calls
    IN /\ authentications' \in {authentications, authentications + 1}
       \* authenticate is called only within a call, and exactly when no
       \* token is cached or the cached one is judged expired
       /\ authentications' # authentications => called /\ refresh
       /\ (called /\ refresh) => authentications' = authentications + 1
       \* otherwise the cached token is returned
       /\ (called /\ ~refresh) =>
             /\ token_exc' = "none"
             /\ token_returned' = cached
             /\ access_token' = cached
       \* what is returned, and cached, is what the latest authenticate gave
       /\ (called /\ token_exc' = "none") =>
             /\ token_returned' = issued'
             /\ access_token' = issued'
       /\ authentications' = authentications => issued' = issued
       /\ ~called => access_token' = access_token

----------------------------------------------------------------------------
(* Claims about approve_request *)

\* C27. The client calls of approve_request are, in this order, reassign_task
\* with the policy step id stored with the request, get_task, and
\* approve_task with the step id that get_task returned: get_task and
\* approve_task are not sent after a call before them raised, approve_task is
\* never sent with the stored id in place of a different one read from
\* get_task, and approve_request returns only after all three.
C27_ApprovalOrder ==
    /\ Len(api_calls) <= 3
    /\ \A i \in 1..Len(api_calls) :
          /\ api_calls[i].op = <<"reassign_task", "get_task", "approve_task">>[i]
          /\ api_calls[i].task_id = approval_request.id
          /\ \A j \in 1..(i - 1) : api_calls[j].ok
    /\ Len(api_calls) >= 1 =>
          /\ api_calls[1].step = approval_request.policy_step_id
          /\ api_calls[1].user = reassign_to_user
    /\ Len(api_calls) = 3 =>
          /\ task_reply.shape = "task_view"
          /\ api_calls[3].step = task_reply.id
          /\ task_reply.id # approval_request.policy_step_id
                => api_calls[3].step # approval_request.policy_step_id
    /\ apc = "returned" => Len(api_calls) = 3 /\ api_calls[3].ok

\* The request stored step s0; after the reassignment get_task gave s1 as the
\* current step, and the approval was sent for s1.
C27_Witness ==
    /\ apc = "returned"
    /\ approval_request.policy_step_id = "s0"
    /\ Len(api_calls) = 3
    /\ api_calls[1].op = "reassign_task" /\ api_calls[1].step = "s0"
    /\ api_calls[2].op = "get_task"
    /\ api_calls[3].op = "approve_task" /\ api_calls[3].step = "s1"

====
